---- MODULE Spec2Model ----
(***************************************************************************)
(* A model of the KDC proxy of package proxy (src/pkg/proxy/proxy.go):     *)
(* KerberosProxy.Handler, forward, decode, getresponse, encode, the length *)
(* codec and the rate limiter the handler consults.  One goroutine per     *)
(* request runs Handler; the goroutines share the limiter only.            *)
(***************************************************************************)
EXTENDS Integers, Sequences, FiniteSets, TLC

VARIABLES
    pc,         \* per request: the place of its goroutine in Handler / forward
    hdr,        \* per request: the HTTP method and ContentLength of r
    data,       \* per request: the bytes io.ReadAll(r.Body) returned
    msg,        \* per request: the *KdcProxyMsg decode returned
    fwd,        \* per request: forward()'s loop variables
    open,       \* per request: the connections dialed and not yet closed
    attempts,   \* per request: the attempts forward() made, in order
    resolved,   \* per request: the GetKDCs calls forward() made, in order
    resp,       \* per request: what forward() returned
    written,    \* per request: the status codes written to the ResponseWriter
    gates,      \* per request: the gates of Handler that ran, in order
    admitted,   \* per request: what limiter.Allow() answered
    limiter,    \* k.limiter: the shared token bucket
    allowLog,   \* the answers of limiter.Allow(), in call order
    refills,    \* the number of tokens time has put back into the bucket
    arrivals,   \* the number of requests the server has accepted
    forwards,   \* the number of calls of forward()
    wire,       \* per request: what went over conn, the connection of the
                \* attempt in progress or just ended
    codec,      \* a call of the codec functions on their own: the function,
                \* its argument and what it returned
    metrics     \* per request: what the Handler call of r has added to the
                \* Prometheus counters of the process, by counter and label

vars == <<pc, hdr, data, msg, fwd, open, attempts, resolved, resp, written,
          gates, admitted, limiter, allowLog, refills, arrivals, forwards,
          wire, codec, metrics>>

(***************************************************************************)
(* Bounds of the model.                                                    *)
(***************************************************************************)
\* the goroutines that run Handler concurrently
Reqs == {"r1", "r2"}
\* the goroutine that runs Handler when requests come one after the other
Sequential == {"r1"}
\* the number of requests the server accepts
MaxArrivals == 2
\* the largest number of KDCs GetKDCs returns for one protocol
MaxKdcs == 2
\* the largest limit given to WithLimit
MaxLimit == 1
\* the number of tokens that time puts back during the window observed
MaxRefills == 1
\* krb5Config.LibDefaults.UDPPreferenceLimit, scaled down to a few bytes
UDPPreferenceLimit == 2

(***************************************************************************)
(* Constants of the program.                                               *)
(***************************************************************************)
maxLength == 128 * 1024
protoUdp == "udp"
protoTcp == "tcp"

StatusOK == 200
StatusBadRequest == 400
StatusMethodNotAllowed == 405
StatusLengthRequired == 411
StatusRequestEntityTooLarge == 413
StatusTooManyRequests == 429
StatusInternalServerError == 500
StatusServiceUnavailable == 503

NoMsg == [KerbMessage |-> <<>>, TargetDomain |-> "-"]
NoData == [kind |-> "none"]
NoHdr == [Method |-> "-", ContentLength |-> 0]

(***************************************************************************)
(* Length framing codec.                                                   *)
(***************************************************************************)
Pow2(n) == 2 ^ n

\* A uint32 is kept as its two 16-bit halves <<high, low>>: the values from
\* 2^31 on do not fit the integers of the model checker.

\* uint32(n) of an int n
Uint32Of(n) == <<(n \div Pow2(16)) % Pow2(16), n % Pow2(16)>>

\* int(u) of a uint32 u, for a u below 2^31
IntOf(u) == u[1] * Pow2(16) + u[2]

\* a Uint32 that reads the bytes the least significant first
Uint32LittleEndian(b) == <<b[4] * Pow2(8) + b[3], b[2] * Pow2(8) + b[1]>>

\* binary.BigEndian.Uint32(b): the first four bytes, the most significant first
Uint32(b) == <<b[1] * Pow2(8) + b[2], b[3] * Pow2(8) + b[4]>>

\* a PutUint32 that writes the bytes the least significant first
PutUint32LittleEndian(u) ==
    <<u[2] % Pow2(8), u[2] \div Pow2(8), u[1] % Pow2(8), u[1] \div Pow2(8)>>

\* binary.BigEndian.PutUint32(b, u) on b := make([]byte, 4)
PutUint32(u) ==
    <<u[1] \div Pow2(8), u[1] % Pow2(8), u[2] \div Pow2(8), u[2] % Pow2(8)>>

\* binary.BigEndian.Uint32 over the first four bytes, as an int
BigEndianUint32(b) == IntOf(Uint32(b))

UnmarshalKerbLength(b) ==
    IF Len(b) < 4
    THEN [n |-> 0, err |-> TRUE]
    ELSE [n |-> BigEndianUint32(b), err |-> FALSE]

\* binary.BigEndian.PutUint32(b, uint32(n)): the four bytes of n's two's
\* complement, the most significant first
MarshalKerbLength(n) == PutUint32(Uint32Of(n))

\* an UnmarshalKerbLength that wants 4 bytes and no more
UnmarshalKerbLengthExact(b) ==
    IF Len(b) # 4
    THEN [n |-> <<0, 0>>, err |-> TRUE]
    ELSE [n |-> Uint32(b), err |-> FALSE]

\* UnmarshalKerbLength over the whole range of a uint32: the int returned,
\* of 64 bits in the build (GOARCH=amd64), is given by its halves
UnmarshalKerbLengthWide(b) ==
    IF Len(b) < 4
    THEN [n |-> <<0, 0>>, err |-> TRUE]
    ELSE [n |-> Uint32(b), err |-> FALSE]

\* MarshalKerbLength over the whole range of a uint32: the int n, from 0 to
\* 2^32 - 1, is given by its halves u, and uint32(n) is n
MarshalKerbLengthWide(u) == PutUint32(u)

\* s[n:] of a Go slice; the caller has checked n <= len(s)
SliceFrom(s, n) == SubSeq(s, n + 1, Len(s))

(***************************************************************************)
(* The bytes of Kerberos messages.  The parsers of gokrb5 (messages.ASReq  *)
(* and the like) are outside the repository: a payload parses as the kind  *)
(* its first byte tags it (the DER application tag of the kind), and its   *)
(* second byte names the realms it carries: that of the request body and   *)
(* that of the ticket.  Whether one payload can satisfy two of the parsers *)
(* is not decided by this repository: the model admits one that satisfies  *)
(* both TGSReq.Unmarshal and APReq.Unmarshal.                              *)
(***************************************************************************)
TagASReq == 106
TagTGSReq == 108
TagAPReq == 110
TagASRep == 107
TagTGSRep == 109
TagAPRep == 111
TagKrbError == 126
\* the first byte of the payload that parses as a TGS-REQ and as an AP-REQ
TagTGSReqAndAPReq == 255

\* ReqBody.Realm of a payload whose realm byte is b
RealmOf(b) == IF b = 0 THEN "" ELSE "EXAMPLE.COM"

\* Ticket.Realm of a payload whose realm byte is b
TicketRealmOf(b) ==
    IF b = 0 THEN "" ELSE IF b = 2 THEN "TICKET.ORG" ELSE "EXAMPLE.COM"

Zeros(n) == [i \in 1..n |-> 0]

\* a payload of n >= 2 bytes tagged t for the realm byte rb
Payload(t, rb, n) == <<t, rb>> \o Zeros(n - 2)

\* the wire form of the Kerberos TCP convention: 4-byte length, payload
Framed(p) == MarshalKerbLength(Len(p)) \o p

ParsesAs(tag, b) == Len(b) >= 2 /\ b[1] = tag

(***************************************************************************)
(* The requests a client can send.                                         *)
(***************************************************************************)
Methods == {"POST", "GET"}
ContentLengths == {-1, maxLength, maxLength + 1}

ShortKerbs == {<<>>, <<0, 0, 0>>}
FramedKerbs ==
    {Framed(Payload(TagASReq, 1, UDPPreferenceLimit)),
     Framed(Payload(TagASReq, 1, UDPPreferenceLimit + 1)),
     Framed(Payload(TagASReq, 0, UDPPreferenceLimit)),
     Framed(Payload(TagTGSReq, 1, UDPPreferenceLimit + 1)),
     Framed(Payload(TagAPReq, 2, UDPPreferenceLimit + 1)),
     Framed(Payload(TagTGSReqAndAPReq, 2, UDPPreferenceLimit + 1)),
     Framed(Payload(TagKrbError, 1, UDPPreferenceLimit)),
     Framed(<<>>)}
Kerbs == ShortKerbs \cup FramedKerbs

\* a KdcProxyMsg
Env(km, td, hint) ==
    [KerbMessage |-> km, TargetDomain |-> td, DcLocatorHint |-> hint]

\* the DER encoding of a KdcProxyMsg, followed by rest further bytes
Der(env, n) == [kind |-> "der", env |-> env, rest |-> n]
Garbage == [kind |-> "garbage"]

Bodies ==
    {Garbage}
    \cup {Der(Env(km, "", 0), 0) : km \in Kerbs}
    \cup {Der(Env(Framed(Payload(TagASReq, 1, UDPPreferenceLimit + 1)), td, h), n) :
            td \in {"", "OTHER.ORG"}, h \in {0, 1}, n \in {0, 1}}

(***************************************************************************)
(* Envelope codec and classifier: KerberosProxy.decode and encode.         *)
(***************************************************************************)
\* asn1.Unmarshal(data, &m)
Asn1Unmarshal(d) ==
    IF d.kind = "der"
    THEN [err |-> FALSE, m |-> d.env, rest |-> d.rest]
    ELSE [err |-> TRUE, m |-> Env(<<>>, "", 0), rest |-> 0]

\* asn1.Marshal(msg)
Asn1Marshal(m) == [err |-> FALSE, enc |-> Der(m, 0)]

ASReqUnmarshal(b) ==
    IF ParsesAs(TagASReq, b) THEN [err |-> FALSE, Realm |-> RealmOf(b[2])]
    ELSE [err |-> TRUE, Realm |-> ""]
TGSReqUnmarshal(b) ==
    IF ParsesAs(TagTGSReq, b) \/ ParsesAs(TagTGSReqAndAPReq, b)
    THEN [err |-> FALSE, Realm |-> RealmOf(b[2])]
    ELSE [err |-> TRUE, Realm |-> ""]
\* Realm is apReq.Ticket.Realm
APReqUnmarshal(b) ==
    IF ParsesAs(TagAPReq, b) \/ ParsesAs(TagTGSReqAndAPReq, b)
    THEN [err |-> FALSE, Realm |-> TicketRealmOf(b[2])]
    ELSE [err |-> TRUE, Realm |-> ""]

\* a decode that takes what no parser accepts for a request of the realm
classifyAnything(km) ==
    LET b == SliceFrom(km, 4)
        Ok(realm) == [out |-> "ok",
                      msg |-> [KerbMessage |-> km, TargetDomain |-> realm]]
    IN  IF ~ASReqUnmarshal(b).err THEN Ok(ASReqUnmarshal(b).Realm)
        ELSE IF ~TGSReqUnmarshal(b).err THEN Ok(TGSReqUnmarshal(b).Realm)
        ELSE IF ~APReqUnmarshal(b).err THEN Ok(APReqUnmarshal(b).Realm)
        ELSE Ok("EXAMPLE.COM")

\* a decode that tries AP-REQ before TGS-REQ
classifyAPFirst(km) ==
    LET b == SliceFrom(km, 4)
        Ok(realm) == [out |-> "ok",
                      msg |-> [KerbMessage |-> km, TargetDomain |-> realm]]
    IN  IF ~ASReqUnmarshal(b).err THEN Ok(ASReqUnmarshal(b).Realm)
        ELSE IF ~APReqUnmarshal(b).err THEN Ok(APReqUnmarshal(b).Realm)
        ELSE IF ~TGSReqUnmarshal(b).err THEN Ok(TGSReqUnmarshal(b).Realm)
        ELSE [out |-> "err", msg |-> NoMsg]

\* the three attempts of decode on m.KerbMessage[4:], in the order of the code
classify(km) ==
    LET b == SliceFrom(km, 4)
        Ok(realm) == [out |-> "ok",
                      msg |-> [KerbMessage |-> km, TargetDomain |-> realm]]
    IN  IF ~ASReqUnmarshal(b).err THEN Ok(ASReqUnmarshal(b).Realm)
        ELSE IF ~TGSReqUnmarshal(b).err THEN Ok(TGSReqUnmarshal(b).Realm)
        ELSE IF ~APReqUnmarshal(b).err THEN Ok(APReqUnmarshal(b).Realm)
        ELSE [out |-> "err", msg |-> NoMsg]

\* m.KerbMessage[4:] is in range only when 4 <= len(m.KerbMessage): Go panics
\* (slice bounds out of range) otherwise
SliceInRange(km, n) == n <= Len(km)

\* a decode that drops what follows the envelope
TrailingDataDropped(rest) == FALSE

\* if len(rest) > 0 { return nil, fmt.Errorf("trailing data in request") }
TrailingData(rest) == rest > 0

\* a decode that takes a dc_locator_hint other than 0 for a choice of realm
decodeByHint(d) ==
    LET u == Asn1Unmarshal(d)
    IN  IF u.err THEN [out |-> "err", msg |-> NoMsg]
        ELSE IF TrailingData(u.rest) THEN [out |-> "err", msg |-> NoMsg]
        ELSE IF ~SliceInRange(u.m.KerbMessage, 4)
             THEN [out |-> "panic", msg |-> NoMsg]
        ELSE IF u.m.DcLocatorHint # 0 /\ classify(u.m.KerbMessage).out = "ok"
             THEN [out |-> "ok", msg |-> [KerbMessage |-> u.m.KerbMessage,
                                           TargetDomain |-> "HINT.ORG"]]
        ELSE classify(u.m.KerbMessage)

\* a decode that takes the target_domain of the envelope, when there is one,
\* for the realm
decodeByTargetDomain(d) ==
    LET u == Asn1Unmarshal(d)
    IN  IF u.err THEN [out |-> "err", msg |-> NoMsg]
        ELSE IF TrailingData(u.rest) THEN [out |-> "err", msg |-> NoMsg]
        ELSE IF ~SliceInRange(u.m.KerbMessage, 4)
             THEN [out |-> "panic", msg |-> NoMsg]
        ELSE IF u.m.TargetDomain # "" /\ classify(u.m.KerbMessage).out = "ok"
             THEN [out |-> "ok", msg |-> [KerbMessage |-> u.m.KerbMessage,
                                           TargetDomain |-> u.m.TargetDomain]]
        ELSE classify(u.m.KerbMessage)

\* decode(data): "ok" with the message, "err", or "panic" when the slice
\* expression m.KerbMessage[4:] is out of range
decode(d) ==
    LET u == Asn1Unmarshal(d)
    IN  IF u.err THEN [out |-> "err", msg |-> NoMsg]
        ELSE IF TrailingData(u.rest) THEN [out |-> "err", msg |-> NoMsg]
        ELSE IF ~SliceInRange(u.m.KerbMessage, 4)
             THEN [out |-> "panic", msg |-> NoMsg]
        ELSE classify(u.m.KerbMessage)

\* an encode that wraps the reply without its prefix
encodePayloadOnly(bytes) == Asn1Marshal(Env(SliceFrom(bytes, 4), "", 0))

\* encode(data)
encode(bytes) == Asn1Marshal(Env(bytes, "", 0))

(***************************************************************************)
(* The rate limiter: rate.NewLimiter(rate.Limit(limit), limit) and Allow.  *)
(***************************************************************************)
Limits == 0..MaxLimit

\* rate.NewLimiter(r, b): a bucket of b tokens, full at first
NewLimiter(r, b) == [rate |-> r, burst |-> b, tokens |-> b]

\* a WithLimit that passes a burst of its own
WithLimitBurstOne(limit) == NewLimiter(limit, 1)

\* WithLimit(limit): kp.limiter = rate.NewLimiter(rate.Limit(limit), limit)
WithLimit(limit) == NewLimiter(limit, limit)

\* an Allow that looks at the bucket and takes nothing
AllowKeepsToken(l) == [ok |-> l.tokens >= 1, lim |-> l]

\* Allow(): under the limiter's mutex, take one token if there is one
Allow(l) ==
    IF l.tokens >= 1
    THEN [ok |-> TRUE, lim |-> [l EXCEPT !.tokens = @ - 1]]
    ELSE [ok |-> FALSE, lim |-> l]

(***************************************************************************)
(* Construction: InitKdcProxy(opts ...ProxyOption) and its options.        *)
(***************************************************************************)
DefaultRateLimit == 10

\* what krb5config.Load can find at a path: no readable file, or a krb5.conf
\* that sets dns_lookup_kdc one way or the other
Files == {"absent", "dns_lookup_kdc = false", "dns_lookup_kdc = true"}

\* the paths given to WithConfig; "" is what the command passes when
\* --krb5conf is not set
Paths == {"", "krb5.conf"}

\* a ProxyOption, by the function that made it and its argument
Option(opt, config, limit) == [opt |-> opt, config |-> config, limit |-> limit]

\* WithConfig(config): kp.config = config
WithConfig(config) == config

\* the options a caller can pass
Options ==
    {Option("WithConfig", p, 0) : p \in Paths}
    \cup {Option("WithLimit", "", l) : l \in Limits}

\* the option lists tried: none, one option, two options
OptionLists ==
    {<<>>} \cup {<<o>> : o \in Options} \cup {<<o, p>> : o, p \in Options}

\* o(kp)
ApplyOption(kp, o) ==
    IF o.opt = "WithConfig" THEN [kp EXCEPT !.config = WithConfig(o.config)]
    ELSE [kp EXCEPT !.limiter = WithLimit(o.limit)]

\* for _, o := range opts { o(kp) }
RECURSIVE ApplyOptions(_, _)
ApplyOptions(kp, opts) ==
    IF opts = <<>> THEN kp
    ELSE ApplyOptions(ApplyOption(kp, Head(opts)), Tail(opts))

\* krb5config.Load(path)
Krb5ConfigLoad(path, file) ==
    IF file = "absent" THEN [err |-> TRUE, cfg |-> [DNSLookupKDC |-> FALSE, path |-> ""]]
    ELSE [err |-> FALSE,
          cfg |-> [DNSLookupKDC |-> file = "dns_lookup_kdc = true", path |-> path]]

\* the defaults InitKdcProxy sets: cfg.LibDefaults.DNSLookupKDC = true and a
\* limiter of DefaultRateLimit
DefaultProxy ==
    [config |-> "",
     krb5Config |-> [DNSLookupKDC |-> TRUE, path |-> ""],
     limiter |-> NewLimiter(DefaultRateLimit, DefaultRateLimit)]

\* return nil, err
NoProxy == [config |-> "-", krb5Config |-> "-", limiter |-> "-"]

\* an InitKdcProxy that falls back to its defaults when the file does not load
InitKdcProxyFallsBack(opts, file) ==
    LET kp == ApplyOptions(DefaultProxy, opts)
        l == Krb5ConfigLoad(kp.config, file)
    IN  IF kp.config # "" /\ ~l.err
        THEN [err |-> FALSE, kp |-> [kp EXCEPT !.krb5Config = l.cfg]]
        ELSE [err |-> FALSE, kp |-> kp]

\* InitKdcProxy(opts...) where file is what lies at the path configured: the
\* proxy and the error returned
InitKdcProxyOpts(opts, file) ==
    LET kp == ApplyOptions(DefaultProxy, opts)
        l == Krb5ConfigLoad(kp.config, file)
    IN  IF kp.config # ""
        THEN IF l.err THEN [err |-> TRUE, kp |-> NoProxy]
             ELSE [err |-> FALSE, kp |-> [kp EXCEPT !.krb5Config = l.cfg]]
        ELSE [err |-> FALSE, kp |-> kp]

(***************************************************************************)
(* The environment of forward(): the resolver and the KDCs.                *)
(***************************************************************************)
\* what krb5Config.GetKDCs(realm, tcp) can return: the count c, the map of
\* KDCs keyed 1..c on preference order, the error
ResolverResults ==
    {[c |-> 0, kdcs |-> {}, err |-> TRUE]}
    \cup {[c |-> n, kdcs |-> 1..n, err |-> FALSE] : n \in 0..MaxKdcs}

\* the outcomes of conn.Write(req): an error, a short count, all written
WriteResults == {"err", "short", "ok"}

\* how the reads of a connection end: a datagram socket never reports EOF,
\* its reads end with the deadline or with an error of the socket
ConnReadEnds(network) ==
    IF network = protoUdp THEN {"timeout", "refused"}
    ELSE {"EOF", "timeout"}

\* the bytes a KDC sends back on a TCP connection before the reads end
TcpStreams ==
    {<<>>, <<0, 0, 0>>, <<0, 0, 0, 0>>,
     <<0, 0, 0, 2, TagASRep, 1>>, <<0, 0, 0, 2, TagKrbError, 1>>,
     <<0, 0, 0, 2, TagASRep>>, <<0, 0, 0, 1, TagASRep, 1>>,
     <<0, 0, 1, 0, TagASRep, 1>>, <<0, 2, 0, 1>>}

\* the datagrams a KDC sends back on a UDP socket before the reads end
UdpStreams == {<<>>, <<TagASRep, 1>>, <<TagKrbError, 1>>}

\* io.ReadAll(conn): everything read until the reads end; EOF is no error
ReadAll(bytes, end) == [data |-> bytes, err |-> end # "EOF"]

\* a ReadFull that reports no error when the reads end early
ReadFullLenient(bytes, n) ==
    IF Len(bytes) >= n
    THEN [data |-> SubSeq(bytes, 1, n), left |-> SliceFrom(bytes, n), err |-> FALSE]
    ELSE [data |-> bytes, left |-> <<>>, err |-> FALSE]

\* io.ReadFull(conn, buf) for a buf of n bytes, on what is left to read
ReadFull(bytes, n) ==
    IF Len(bytes) >= n
    THEN [data |-> SubSeq(bytes, 1, n), left |-> SliceFrom(bytes, n), err |-> FALSE]
    ELSE [data |-> bytes, left |-> <<>>, err |-> TRUE]

validReply(b) ==
    \/ ParsesAs(TagASRep, b)
    \/ ParsesAs(TagTGSRep, b)
    \/ ParsesAs(TagAPRep, b)

\* getresponse(conn) on a connection of the network given, when the KDC
\* sends bytes and the reads then end with end
\* a getresponse that returns the reply without its prefix
getresponseBare(network, bytes, end) ==
    IF network = protoUdp
    THEN LET m == ReadAll(bytes, end)
         IN  IF m.err \/ ~validReply(m.data)
             THEN [err |-> TRUE, resp |-> <<>>, alloc |-> 0]
             ELSE [err |-> FALSE, alloc |-> 0, resp |-> m.data]
    ELSE LET buf == ReadFull(bytes, 4)
             length == UnmarshalKerbLength(buf.data)
             m == ReadFull(buf.left, length.n)
         IN  IF buf.err \/ length.err
             THEN [err |-> TRUE, resp |-> <<>>, alloc |-> 0]
             ELSE IF m.err THEN [err |-> TRUE, resp |-> <<>>, alloc |-> length.n]
             ELSE [err |-> FALSE, resp |-> m.data, alloc |-> length.n]

\* a getresponse that validates what it read from a TCP connection too
getresponseValidatesTcp(network, bytes, end) ==
    IF network = protoUdp
    THEN LET m == ReadAll(bytes, end)
         IN  IF m.err THEN [err |-> TRUE, resp |-> <<>>, alloc |-> 0]
             ELSE IF ~validReply(m.data)
                  THEN [err |-> TRUE, resp |-> <<>>, alloc |-> 0]
             ELSE [err |-> FALSE, alloc |-> 0,
                   resp |-> MarshalKerbLength(Len(m.data)) \o m.data]
    ELSE LET buf == ReadFull(bytes, 4)
             length == UnmarshalKerbLength(buf.data)
             m == ReadFull(buf.left, length.n)
         IN  IF buf.err THEN [err |-> TRUE, resp |-> <<>>, alloc |-> 0]
             ELSE IF length.err THEN [err |-> TRUE, resp |-> <<>>, alloc |-> 0]
             ELSE IF m.err THEN [err |-> TRUE, resp |-> <<>>, alloc |-> length.n]
             ELSE IF ~validReply(m.data)
                  THEN [err |-> TRUE, resp |-> <<>>, alloc |-> length.n]
             ELSE [err |-> FALSE, resp |-> buf.data \o m.data,
                   alloc |-> length.n]

\* alloc is the size of the buffer made for the reply, make([]byte, length)
getresponse(network, bytes, end) ==
    IF network = protoUdp
    THEN LET m == ReadAll(bytes, end)
         IN  IF m.err THEN [err |-> TRUE, resp |-> <<>>, alloc |-> 0]
             ELSE IF ~validReply(m.data)
                  THEN [err |-> TRUE, resp |-> <<>>, alloc |-> 0]
             ELSE [err |-> FALSE, alloc |-> 0,
                   resp |-> MarshalKerbLength(Len(m.data)) \o m.data]
    ELSE LET buf == ReadFull(bytes, 4)
             length == UnmarshalKerbLength(buf.data)
             m == ReadFull(buf.left, length.n)
         IN  IF buf.err THEN [err |-> TRUE, resp |-> <<>>, alloc |-> 0]
             ELSE IF length.err THEN [err |-> TRUE, resp |-> <<>>, alloc |-> 0]
             ELSE IF m.err THEN [err |-> TRUE, resp |-> <<>>, alloc |-> length.n]
             ELSE [err |-> FALSE, resp |-> buf.data \o m.data,
                   alloc |-> length.n]

\* the cutover one byte early: a payload of exactly the limit goes to tcp
ProtocolsInclusive(m) ==
    IF Len(m.KerbMessage) - 4 >= UDPPreferenceLimit
    THEN <<protoTcp>>
    ELSE <<protoUdp, protoTcp>>

\* the protocols forward() tries, in order
Protocols(m) ==
    IF Len(m.KerbMessage) - 4 > UDPPreferenceLimit
    THEN <<protoTcp>>
    ELSE <<protoUdp, protoTcp>>

\* for _, kdc := range kdcs, over a Go map: the iteration order of a map is
\* not specified, any key not yet visited can come next
RangeNext(keys) == keys

\* a forward() that writes the kerb_message whole over either protocol
RequestBytesWhole(proto, km) == km

\* the bytes forward() writes to the KDC
RequestBytes(proto, km) ==
    IF proto = protoUdp THEN SliceFrom(km, 4) ELSE km

\* conn.Close()
Close(conns, c) == conns \ {c}

NoFwd == [protocols |-> <<>>, pi |-> 0, kdcs |-> {}, kdc |-> 0]

\* conn before anything was written to it or read from it: req is what was
\* handed to conn.Write and wrote how the write ended, stream is what the KDC
\* sent and end how the reads ended, alloc the size of the reply buffer made
\* deadline tells whether a deadline is set on conn, unarmed names the
\* blocking operations that were begun while none was
NoWire == [req |-> <<>>, wrote |-> "-", stream |-> <<>>, end |-> "-",
           alloc |-> 0, read |-> FALSE, deadline |-> FALSE, unarmed |-> {}]

\* an operation that can block begins on conn: the deadline bounds it when
\* one is set by then, the operating system alone otherwise
Begin(w, op) == [w EXCEPT !.unarmed = IF w.deadline THEN @ ELSE @ \cup {op}]

\* conn.SetDeadline(time.Now().Add(timeout))
SetDeadline(w) == [w EXCEPT !.deadline = TRUE]
NoResp == [err |-> FALSE, bytes |-> <<>>]

(***************************************************************************)
(* The Prometheus counters: httpReqs, a Counter, and the CounterVecs       *)
(* httpResp (label code), kerbReqs and kerbResp (label proto).             *)
(***************************************************************************)
\* http.StatusText(code)
StatusText(code) ==
    CASE code = StatusOK -> "OK"
      [] code = StatusBadRequest -> "Bad Request"
      [] code = StatusMethodNotAllowed -> "Method Not Allowed"
      [] code = StatusLengthRequired -> "Length Required"
      [] code = StatusRequestEntityTooLarge -> "Request Entity Too Large"
      [] code = StatusTooManyRequests -> "Too Many Requests"
      [] code = StatusInternalServerError -> "Internal Server Error"
      [] code = StatusServiceUnavailable -> "Service Unavailable"
      [] OTHER -> ""

\* a CounterVec without children
NoLabels == [l \in {} |-> 0]

\* nothing added to any counter
NoMetrics ==
    [httpReqs |-> 0, httpResp |-> NoLabels, kerbReqs |-> NoLabels,
     kerbResp |-> NoLabels]

\* vec.WithLabelValues(l): the child of the label value, made at 0 when the
\* vec has none yet
WithLabelValues(vec, l) ==
    IF l \in DOMAIN vec THEN vec ELSE vec @@ (l :> 0)

\* vec.WithLabelValues(l).Inc()
Inc(vec, l) == [WithLabelValues(vec, l) EXCEPT ![l] = @ + 1]

\* the value of the child of l, 0 when there is none
Value(vec, l) == IF l \in DOMAIN vec THEN vec[l] ELSE 0

\* httpResp.WithLabelValues(http.StatusText(code)).Inc(), before http.Error
CountResponse(m, code) == [m EXCEPT !.httpResp = Inc(@, StatusText(code))]

\* httpResp.WithLabelValues(http.StatusText(http.StatusOK)): the child is
\* looked up, Inc is not called
CountOK(m) ==
    [m EXCEPT !.httpResp = WithLabelValues(@, StatusText(StatusOK))]

\* kerbReqs.WithLabelValues("proto").Inc(): the label value is the string
\* "proto", not the variable proto
CountKerbRequest(m, proto) == [m EXCEPT !.kerbReqs = Inc(@, "proto")]

\* the label under which getresponse counts a response: "udp" once
\* io.ReadAll has returned without error, "tcp" once both io.ReadFull have,
\* "-" when it returns before
KerbRespLabel(network, bytes, end) ==
    IF network = protoUdp
    THEN IF ReadAll(bytes, end).err THEN "-" ELSE "udp"
    ELSE LET buf == ReadFull(bytes, 4)
             length == UnmarshalKerbLength(buf.data)
         IN  IF buf.err \/ length.err \/ ReadFull(buf.left, length.n).err
             THEN "-" ELSE "tcp"

\* kerbResp.WithLabelValues(label).Inc() in getresponse
CountKerbResponse(m, label) ==
    IF label = "-" THEN m ELSE [m EXCEPT !.kerbResp = Inc(@, label)]

(***************************************************************************)
(* The state after construction: InitKdcProxy(WithLimit(limit)).           *)
(***************************************************************************)
InitKdcProxy ==
    /\ pc = [r \in Reqs |-> "idle"]
    /\ hdr = [r \in Reqs |-> NoHdr]
    /\ data = [r \in Reqs |-> NoData]
    /\ msg = [r \in Reqs |-> NoMsg]
    /\ fwd = [r \in Reqs |-> NoFwd]
    /\ open = [r \in Reqs |-> {}]
    /\ attempts = [r \in Reqs |-> <<>>]
    /\ resolved = [r \in Reqs |-> <<>>]
    /\ resp = [r \in Reqs |-> NoResp]
    /\ written = [r \in Reqs |-> <<>>]
    /\ gates = [r \in Reqs |-> <<>>]
    /\ admitted = [r \in Reqs |-> "-"]
    /\ \E limit \in Limits :
         limiter = InitKdcProxyOpts(<<Option("WithLimit", "", limit)>>,
                                    "absent").kp.limiter
    /\ allowLog = <<>>
    /\ refills = 0
    /\ arrivals = 0
    /\ forwards = 0
    /\ wire = [r \in Reqs |-> NoWire]
    /\ metrics = [r \in Reqs |-> NoMetrics]

\* no call of the codec functions on their own
NoCodec == [fn |-> "-", arg |-> <<>>, out |-> <<>>, enc |-> <<>>,
            back |-> <<>>, step |-> 0]

Init == InitKdcProxy /\ codec = NoCodec

(***************************************************************************)
(* KerberosProxy.Handler, one action per gate.                             *)
(***************************************************************************)
\* a response written to the http.ResponseWriter by w.Write, under the header
\* Handler set on entry: w.Header().Set("Content-Type", "application/kerberos")
Response(code, body) ==
    [code |-> code, body |-> body, ctype |-> "application/kerberos"]

\* http.Error(w, text, code): net/http sets the Content-Type of the response
\* to text/plain, over whatever the handler had set, and writes the text
HttpError(code) ==
    [code |-> code, body |-> NoData, ctype |-> "text/plain; charset=utf-8"]

\* http.Error(w, text, code); return
Fail(r, gate, code) ==
    /\ metrics' = [metrics EXCEPT ![r] = CountResponse(@, code)]
    /\ written' = [written EXCEPT ![r] = Append(@, HttpError(code))]
    /\ gates' = [gates EXCEPT ![r] = Append(@, gate)]
    /\ pc' = [pc EXCEPT ![r] = "done"]

\* the gate passed: on to the next one
Pass(r, gate, next) ==
    /\ gates' = [gates EXCEPT ![r] = Append(@, gate)]
    /\ pc' = [pc EXCEPT ![r] = next]
    /\ UNCHANGED <<written, metrics>>

\* the server accepts a request and starts Handler on a goroutine of its own
Arrive(r) ==
    /\ pc[r] = "idle"
    /\ arrivals < MaxArrivals
    /\ arrivals' = arrivals + 1
    /\ \E m \in Methods, n \in ContentLengths :
         hdr' = [hdr EXCEPT ![r] = [Method |-> m, ContentLength |-> n]]
    /\ pc' = [pc EXCEPT ![r] = "MethodCheck"]
    /\ metrics' = [metrics EXCEPT ![r].httpReqs = @ + 1]
    /\ UNCHANGED <<data, msg, fwd, open, attempts, resolved, resp, written,
                   gates, admitted, limiter, allowLog, refills, forwards, wire,
                   codec>>

\* the status MethodCheck answers, 0 for none
MethodStatus(method) ==
    IF method # "POST" THEN StatusMethodNotAllowed ELSE 0

MethodCheck(r) ==
    /\ pc[r] = "MethodCheck"
    /\ IF MethodStatus(hdr[r].Method) # 0
       THEN Fail(r, "MethodCheck", MethodStatus(hdr[r].Method))
       ELSE Pass(r, "MethodCheck", "LengthCheck")
    /\ UNCHANGED <<hdr, data, msg, fwd, open, attempts, resolved, resp,
                   admitted, limiter, allowLog, refills, arrivals, forwards, wire,
                   codec>>

\* a LengthCheck that rejects a length of exactly maxLength
LengthStatusInclusive(length) ==
    IF length = -1 THEN StatusLengthRequired
    ELSE IF length >= maxLength THEN StatusRequestEntityTooLarge
    ELSE 0

\* the status LengthCheck answers, 0 for none
LengthStatus(length) ==
    IF length = -1 THEN StatusLengthRequired
    ELSE IF length > maxLength THEN StatusRequestEntityTooLarge
    ELSE 0

LengthCheck(r) ==
    /\ pc[r] = "LengthCheck"
    /\ IF LengthStatus(hdr[r].ContentLength) # 0
       THEN Fail(r, "LengthCheck", LengthStatus(hdr[r].ContentLength))
       ELSE Pass(r, "LengthCheck", "BodyRead")
    /\ UNCHANGED <<hdr, data, msg, fwd, open, attempts, resolved, resp,
                   admitted, limiter, allowLog, refills, arrivals, forwards, wire,
                   codec>>

\* data, err := io.ReadAll(r.Body)
BodyRead(r) ==
    /\ pc[r] = "BodyRead"
    /\ \/ /\ Fail(r, "BodyRead", StatusInternalServerError)
          /\ UNCHANGED data
       \/ /\ \E d \in Bodies : data' = [data EXCEPT ![r] = d]
          /\ Pass(r, "BodyRead", "AdmissionCheck")
    /\ UNCHANGED <<hdr, msg, fwd, open, attempts, resolved, resp,
                   admitted, limiter, allowLog, refills, arrivals, forwards, wire,
                   codec>>

\* a Handler that goes on whatever the limiter answers
AdmitAll(ok) == "Decode"

\* where Handler goes on the answer of limiter.Allow()
AfterAdmission(ok) == IF ok THEN "Decode" ELSE "done"

\* if !k.limiter.Allow() { 429 }
AdmissionCheck(r) ==
    /\ pc[r] = "AdmissionCheck"
    /\ LET a == Allow(limiter)
       IN  /\ limiter' = a.lim
           /\ allowLog' = Append(allowLog, a.ok)
           /\ admitted' = [admitted EXCEPT ![r] = IF a.ok THEN "yes" ELSE "no"]
           /\ gates' = [gates EXCEPT ![r] = Append(@, "AdmissionCheck")]
           /\ pc' = [pc EXCEPT ![r] = AfterAdmission(a.ok)]
           /\ written' = [written EXCEPT ![r] =
                  IF AfterAdmission(a.ok) = "done"
                  THEN Append(@, HttpError(StatusTooManyRequests))
                  ELSE @]
           /\ metrics' = [metrics EXCEPT ![r] =
                  IF AfterAdmission(a.ok) = "done"
                  THEN CountResponse(@, StatusTooManyRequests)
                  ELSE @]
    /\ UNCHANGED <<hdr, data, msg, fwd, open, attempts, resolved, resp, refills,
                   arrivals, forwards, wire,
                   codec>>

\* a Handler that gives the token back when it refuses the request
RefusedRefunds(l) == [l EXCEPT !.tokens = @ + 1]

\* the limiter when Handler refuses a request that Allow() had let pass:
\* http.Error and return, nothing is done to k.limiter
Refused(l) == l

\* msg, err := k.decode(data); a panic of decode unwinds Handler: the server
\* recovers it and closes the connection, no response is written.
Decode(r) ==
    /\ pc[r] = "Decode"
    /\ LET d == decode(data[r])
       IN  CASE d.out = "panic" ->
                  /\ pc' = [pc EXCEPT ![r] = "panicked"]
                  /\ gates' = [gates EXCEPT ![r] = Append(@, "Decode")]
                  /\ UNCHANGED <<written, msg, data, limiter, metrics>>
             [] d.out = "err" ->
                  /\ Fail(r, "Decode", StatusBadRequest)
                  /\ limiter' = Refused(limiter)
                  /\ UNCHANGED <<msg, data>>
             [] OTHER ->
                  /\ msg' = [msg EXCEPT ![r] = d.msg]
                  /\ UNCHANGED <<data, limiter>>
                  /\ Pass(r, "Decode", "RealmCheck")
    /\ UNCHANGED <<hdr, fwd, open, attempts, resolved, resp,
                   admitted, allowLog, refills, arrivals, forwards, wire,
                   codec>>

\* a Handler that forwards whatever the realm
RealmStatusNone(realm) == 0

\* the status RealmCheck answers, 0 for none
RealmStatus(realm) == IF realm = "" THEN StatusBadRequest ELSE 0

\* if msg.TargetDomain == "" { 400 }
RealmCheck(r) ==
    /\ pc[r] = "RealmCheck"
    /\ IF RealmStatus(msg[r].TargetDomain) # 0
       THEN /\ Fail(r, "RealmCheck", RealmStatus(msg[r].TargetDomain))
            /\ limiter' = Refused(limiter)
       ELSE /\ Pass(r, "RealmCheck", "Forward")
            /\ UNCHANGED limiter
    /\ UNCHANGED <<hdr, data, msg, fwd, open, attempts, resolved, resp,
                   admitted, allowLog, refills, arrivals, forwards, wire,
                   codec>>

(***************************************************************************)
(* KerberosProxy.forward, one action per step that can block or fail.      *)
(***************************************************************************)
\* resp, err := k.forward(msg): the protocols are chosen on entry
ForwardCall(r) ==
    /\ pc[r] = "Forward"
    /\ fwd' = [fwd EXCEPT ![r] =
                 [protocols |-> Protocols(msg[r]), pi |-> 0, kdcs |-> {}, kdc |-> 0]]
    /\ Pass(r, "Forward", "fwd_proto")
    /\ forwards' = forwards + 1
    /\ UNCHANGED <<hdr, data, msg, open, attempts, resolved, resp,
                   admitted, limiter, allowLog, refills, arrivals, wire,
                   codec>>

\* the protocol skipped one KDC too early
NoKdcsOffByOne(res) == res.err \/ res.c < 2

\* if err != nil || c < 1 { continue }
NoKdcs(res) == res.err \/ res.c < 1

\* a forward() that gives up at the first protocol without KDCs (break)
GiveUp(pi, n) == n

\* continue: the protocols done when GetKDCs gave an error or no KDC, pi of
\* n before the call
AfterNoKdcs(pi, n) == pi + 1

\* for _, proto := range protocols: GetKDCs for the next protocol
ForwardResolve(r) ==
    /\ pc[r] = "fwd_proto"
    /\ fwd[r].pi < Len(fwd[r].protocols)
    /\ LET proto == fwd[r].protocols[fwd[r].pi + 1]
       IN  \E res \in ResolverResults :
             /\ resolved' = [resolved EXCEPT ![r] =
                    Append(@, [realm |-> msg[r].TargetDomain, proto |-> proto,
                               c |-> res.c, err |-> res.err])]
             /\ IF NoKdcs(res)
                THEN /\ fwd' = [fwd EXCEPT
                                  ![r].pi = AfterNoKdcs(@, Len(fwd[r].protocols)),
                                  ![r].kdcs = {}]
                     /\ UNCHANGED pc
                ELSE /\ fwd' = [fwd EXCEPT ![r].pi = @ + 1, ![r].kdcs = res.kdcs]
                     /\ pc' = [pc EXCEPT ![r] = "fwd_kdc"]
    /\ UNCHANGED <<hdr, data, msg, open, attempts, resp, written, gates,
                   admitted, limiter, allowLog, refills, arrivals, forwards, wire,
                   codec, metrics>>

\* the protocols are exhausted: forward returns its error, Handler answers 503
ForwardExhausted(r) ==
    /\ pc[r] = "fwd_proto"
    /\ fwd[r].pi = Len(fwd[r].protocols)
    /\ resp' = [resp EXCEPT ![r] = [err |-> TRUE, bytes |-> <<>>]]
    /\ written' = [written EXCEPT ![r] =
                     Append(@, HttpError(StatusServiceUnavailable))]
    /\ pc' = [pc EXCEPT ![r] = "done"]
    /\ limiter' = Refused(limiter)
    /\ metrics' = [metrics EXCEPT ![r] =
                     CountResponse(@, StatusServiceUnavailable)]
    /\ UNCHANGED <<hdr, data, msg, fwd, open, attempts, resolved, gates,
                   admitted, allowLog, refills, arrivals, forwards, wire,
                   codec>>

\* the attempt in progress, the last of the attempts, ends
EndAttempt(as, out, reply) ==
    [as EXCEPT ![Len(as)].out = out, ![Len(as)].reply = reply]

\* for _, kdc := range kdcs: conn, err := net.Dial(proto, kdc)
ForwardDial(r) ==
    /\ pc[r] = "fwd_kdc"
    /\ fwd[r].kdcs # {}
    /\ LET proto == fwd[r].protocols[fwd[r].pi]
       IN  \E k \in RangeNext(fwd[r].kdcs), ok \in BOOLEAN :
             /\ fwd' = [fwd EXCEPT ![r].kdcs = @ \ {k}, ![r].kdc = k]
             /\ metrics' = [metrics EXCEPT ![r] = CountKerbRequest(@, proto)]
             /\ wire' = [wire EXCEPT ![r] =
                    IF ok THEN SetDeadline(Begin(NoWire, "dial"))
                    ELSE Begin(NoWire, "dial")]
             /\ attempts' = [attempts EXCEPT ![r] =
                    Append(@, [proto |-> proto, kdc |-> k, reply |-> <<>>,
                               out |-> IF ok THEN "open" ELSE "fail"])]
             /\ IF ok
                THEN /\ open' = [open EXCEPT ![r] = @ \cup {<<proto, k>>}]
                     /\ pc' = [pc EXCEPT ![r] = "fwd_write"]
                ELSE UNCHANGED <<open, pc>>
    /\ UNCHANGED <<hdr, data, msg, resolved, resp, written, gates,
                   admitted, limiter, allowLog, refills, arrivals, forwards,
                   codec>>

\* the KDCs of this protocol are exhausted: on to the next protocol; conn,
\* declared in the body of the loop, is gone
ForwardNextProto(r) ==
    /\ pc[r] = "fwd_kdc"
    /\ fwd[r].kdcs = {}
    /\ pc' = [pc EXCEPT ![r] = "fwd_proto"]
    /\ wire' = [wire EXCEPT ![r] = NoWire]
    /\ UNCHANGED <<hdr, data, msg, fwd, open, attempts, resolved, resp,
                   written, gates, admitted, limiter, allowLog, refills, arrivals, forwards,
                   codec, metrics>>

\* a failed write that forgets conn.Close()
LeaveOpen(conns, c) == conns

\* the connections left open when conn.Write fails or writes short
AfterFailedWrite(conns, c) == Close(conns, c)

\* a forward() that reads the reply whatever the write did
ReadAnyway(w) == "fwd_read"

\* where forward() goes on the outcome of conn.Write: to getresponse when
\* err == nil and n == len(req), to the next KDC otherwise
AfterWrite(w) == IF w = "ok" THEN "fwd_read" ELSE "fwd_kdc"

\* n, err := conn.Write(req)
ForwardWrite(r) ==
    /\ pc[r] = "fwd_write"
    /\ LET proto == fwd[r].protocols[fwd[r].pi]
           c == <<proto, fwd[r].kdc>>
       IN  \E w \in WriteResults :
             /\ wire' = [wire EXCEPT ![r] =
                    [Begin(@, "write") EXCEPT
                        !.req = RequestBytes(proto, msg[r].KerbMessage),
                        !.wrote = w]]
             /\ pc' = [pc EXCEPT ![r] = AfterWrite(w)]
             /\ IF w = "ok"
                THEN UNCHANGED <<open, attempts>>
                ELSE /\ open' = [open EXCEPT ![r] = AfterFailedWrite(@, c)]
                     /\ attempts' = [attempts EXCEPT ![r] =
                                       EndAttempt(@, "fail", <<>>)]
    /\ UNCHANGED <<hdr, data, msg, fwd, resolved, resp, written, gates,
                   admitted, limiter, allowLog, refills, arrivals, forwards,
                   codec, metrics>>

\* a getresponse without its defer conn.Close()
KeepOpen(conns, c) == conns

\* the connections left open when getresponse returns (defer conn.Close())
AfterGetResponse(conns, c) == Close(conns, c)

\* a forward() that returns whatever getresponse gave
ReturnAlways(err) == "Encode"

\* a proxy that keeps the reply of the KDC in one place for all requests
SharedSlot(r) == "r1"

\* resp, the result of forward(), is a local variable of the Handler call of
\* r: each goroutine has its own
OwnSlot(r) == r

\* where forward() goes on the error of getresponse
AfterAttempt(err) == IF err THEN "fwd_kdc" ELSE "Encode"

\* resp, err := getresponse(conn); on success forward returns resp
ForwardRead(r) ==
    /\ pc[r] = "fwd_read"
    /\ LET proto == fwd[r].protocols[fwd[r].pi]
           c == <<proto, fwd[r].kdc>>
       IN  \E bytes \in IF proto = protoUdp THEN UdpStreams ELSE TcpStreams,
              end \in ConnReadEnds(proto) :
             LET g == getresponse(proto, bytes, end)
             IN  /\ open' = [open EXCEPT ![r] = AfterGetResponse(@, c)]
                 /\ wire' = [wire EXCEPT ![r] =
                        [Begin(@, "read") EXCEPT
                            !.stream = bytes, !.end = end,
                            !.alloc = g.alloc, !.read = TRUE]]
                 /\ attempts' = [attempts EXCEPT ![r] =
                        EndAttempt(@, IF g.err THEN "fail" ELSE "ok", g.resp)]
                 /\ resp' = [resp EXCEPT ![OwnSlot(r)] =
                        IF AfterAttempt(g.err) = "Encode"
                        THEN [err |-> FALSE, bytes |-> g.resp] ELSE @]
                 /\ pc' = [pc EXCEPT ![r] = AfterAttempt(g.err)]
                 /\ metrics' = [metrics EXCEPT ![r] =
                        CountKerbResponse(@, KerbRespLabel(proto, bytes, end))]
    /\ UNCHANGED <<hdr, data, msg, fwd, resolved, written, gates,
                   admitted, limiter, allowLog, refills, arrivals, forwards,
                   codec>>

(***************************************************************************)
(* Handler, after forward.                                                 *)
(***************************************************************************)
\* reply, err := k.encode(resp)
Encode(r) ==
    /\ pc[r] = "Encode"
    /\ IF encode(resp[r].bytes).err
       THEN Fail(r, "Encode", StatusInternalServerError)
       ELSE Pass(r, "Encode", "Respond")
    /\ UNCHANGED <<hdr, data, msg, fwd, open, attempts, resolved, resp,
                   admitted, limiter, allowLog, refills, arrivals, forwards, wire,
                   codec>>

\* w.Write(reply): the first write sends the header with status 200
Respond(r) ==
    /\ pc[r] = "Respond"
    /\ written' = [written EXCEPT ![r] =
                     Append(@, Response(StatusOK, encode(resp[r].bytes).enc))]
    /\ gates' = [gates EXCEPT ![r] = Append(@, "Respond")]
    /\ pc' = [pc EXCEPT ![r] = "done"]
    /\ metrics' = [metrics EXCEPT ![r] = CountOK(@)]
    /\ UNCHANGED <<hdr, data, msg, fwd, open, attempts, resolved, resp,
                   admitted, limiter, allowLog, refills, arrivals, forwards, wire,
                   codec>>

(***************************************************************************)
(* The limiter's clock, and calls made on the limiter alone.               *)
(***************************************************************************)
\* time passes: the bucket regains a token, up to its burst
Refill ==
    /\ refills < MaxRefills
    /\ limiter.rate > 0
    /\ limiter.tokens < limiter.burst
    /\ limiter' = [limiter EXCEPT !.tokens = @ + 1]
    /\ refills' = refills + 1
    /\ UNCHANGED <<pc, hdr, data, msg, fwd, open, attempts, resolved, resp,
                   written, gates, admitted, allowLog, arrivals, forwards, wire,
                   codec, metrics>>

\* Handler has returned (or its panic was recovered): the goroutine ends and
\* nothing of the request is kept
Return(r) ==
    /\ pc[r] \in {"done", "panicked"}
    /\ pc' = [pc EXCEPT ![r] = "idle"]
    /\ hdr' = [hdr EXCEPT ![r] = NoHdr]
    /\ data' = [data EXCEPT ![r] = NoData]
    /\ msg' = [msg EXCEPT ![r] = NoMsg]
    /\ fwd' = [fwd EXCEPT ![r] = NoFwd]
    /\ attempts' = [attempts EXCEPT ![r] = <<>>]
    /\ resolved' = [resolved EXCEPT ![r] = <<>>]
    /\ resp' = [resp EXCEPT ![r] = NoResp]
    /\ written' = [written EXCEPT ![r] = <<>>]
    /\ gates' = [gates EXCEPT ![r] = <<>>]
    /\ admitted' = [admitted EXCEPT ![r] = "-"]
    /\ wire' = [wire EXCEPT ![r] = NoWire]
    /\ metrics' = [metrics EXCEPT ![r] = NoMetrics]
    /\ UNCHANGED <<open, limiter, allowLog, refills, arrivals, forwards,
                   codec>>

Step(r) ==
    \/ Arrive(r)
    \/ MethodCheck(r)
    \/ LengthCheck(r)
    \/ BodyRead(r)
    \/ AdmissionCheck(r)
    \/ Decode(r)
    \/ RealmCheck(r)
    \/ ForwardCall(r)
    \/ ForwardResolve(r)
    \/ ForwardExhausted(r)
    \/ ForwardDial(r)
    \/ ForwardNextProto(r)
    \/ ForwardWrite(r)
    \/ ForwardRead(r)
    \/ Encode(r)
    \/ Respond(r)
    \/ Return(r)

\* requests handled one after the other
Next == (\E r \in Sequential : Step(r)) \/ Refill

Spec == Init /\ [][Next]_vars

\* the steps of the goroutine that runs Handler for r, once it has started
Run(r) ==
    \/ MethodCheck(r)
    \/ LengthCheck(r)
    \/ BodyRead(r)
    \/ AdmissionCheck(r)
    \/ Decode(r)
    \/ RealmCheck(r)
    \/ ForwardCall(r)
    \/ ForwardResolve(r)
    \/ ForwardExhausted(r)
    \/ ForwardDial(r)
    \/ ForwardNextProto(r)
    \/ ForwardWrite(r)
    \/ ForwardRead(r)
    \/ Encode(r)
    \/ Respond(r)

\* the scheduler keeps running a goroutine that can take a step, and every
\* dial, write and read completes or times out: no step of Handler is put
\* off for ever
LiveSpec == Spec /\ \A r \in Sequential : WF_vars(Run(r))

(***************************************************************************)
(* Requests handled concurrently, in a smaller world: one KDC at most per  *)
(* protocol, three bodies, one reply.                                      *)
(***************************************************************************)
SmallBodies ==
    {Garbage, Der(Env(Framed(Payload(TagASReq, 1, UDPPreferenceLimit + 1)), "", 0), 0)}

SmallWorld ==
    \A r \in Reqs :
        /\ hdr[r] \in {NoHdr, [Method |-> "POST", ContentLength |-> maxLength]}
        /\ data[r] \in SmallBodies \cup {NoData}
        /\ \A i \in DOMAIN resolved[r] : resolved[r][i].c <= 1
        /\ resp[r].bytes \in {<<>>, <<0, 0, 0, 0>>}
        /\ wire[r].stream \in {<<>>, <<0, 0, 0, 0>>}

ConcNext == (\E r \in Reqs : Step(r) /\ SmallWorld') \/ Refill

ConcSpec == Init /\ [][ConcNext]_vars

(***************************************************************************)
(* The codec functions called on their own, as the tests of the package    *)
(* call them: MarshalKerbLength and UnmarshalKerbLength over the range of  *)
(* a uint32, decode and encode over the bodies a client can send.          *)
(***************************************************************************)
\* the halves of the lengths tried
Halves == {0, 1, 255, 256, 257, 32767, 32768, 65535}

\* the lengths n given to MarshalKerbLength, from 0 to 2^32 - 1
LengthInputs == Halves \X Halves

\* the slices given to UnmarshalKerbLength; nil is the empty one
ByteInputs ==
    {<<>>, <<0>>, <<0, 0>>, <<0, 0, 0>>, <<255, 255, 255>>,
     <<0, 0, 0, 0>>, <<0, 0, 0, 1>>, <<0, 0, 1, 1>>, <<128, 0, 0, 0>>,
     <<255, 255, 255, 255>>, <<0, 0, 1, 1, 9>>, <<1, 2, 3, 4, 5, 6>>}

Call(fn, arg) == [NoCodec EXCEPT !.fn = fn, !.arg = arg]

CodecInit ==
    /\ InitKdcProxy
    /\ codec \in {Call("MarshalKerbLength", u) : u \in LengthInputs}
                \cup {Call("UnmarshalKerbLength", b) : b \in ByteInputs}
                \cup {Call("decode", d) : d \in Bodies}
                \cup {Call("InitKdcProxy", [opts |-> o, file |-> f]) :
                         o \in OptionLists, f \in Files}

\* b := MarshalKerbLength(n)
CodecMarshal ==
    /\ codec.fn = "MarshalKerbLength" /\ codec.step = 0
    /\ codec' = [codec EXCEPT !.out = MarshalKerbLengthWide(codec.arg),
                              !.step = 1]

\* n, err := UnmarshalKerbLength(b) on the bytes MarshalKerbLength returned
CodecMarshalBack ==
    /\ codec.fn = "MarshalKerbLength" /\ codec.step = 1
    /\ codec' = [codec EXCEPT !.back = UnmarshalKerbLengthWide(codec.out),
                              !.step = 2]

\* n, err := UnmarshalKerbLength(b)
CodecUnmarshal ==
    /\ codec.fn = "UnmarshalKerbLength" /\ codec.step = 0
    /\ codec' = [codec EXCEPT !.out = UnmarshalKerbLengthWide(codec.arg),
                              !.step = 1]

\* msg, err := k.decode(data)
CodecDecode ==
    /\ codec.fn = "decode" /\ codec.step = 0
    /\ codec' = [codec EXCEPT !.out = decode(codec.arg), !.step = 1]

\* enc, err := k.encode(msg.KerbMessage)
CodecEncode ==
    /\ codec.fn = "decode" /\ codec.step = 1
    /\ codec.out.out = "ok"
    /\ codec' = [codec EXCEPT !.enc = encode(codec.out.msg.KerbMessage),
                              !.step = 2]

\* msg, err := k.decode(enc)
CodecDecodeBack ==
    /\ codec.fn = "decode" /\ codec.step = 2
    /\ ~codec.enc.err
    /\ codec' = [codec EXCEPT !.back = decode(codec.enc.enc), !.step = 3]

\* kp, err := InitKdcProxy(opts...)
CodecInitKdcProxy ==
    /\ codec.fn = "InitKdcProxy" /\ codec.step = 0
    /\ codec' = [codec EXCEPT
                   !.out = InitKdcProxyOpts(codec.arg.opts, codec.arg.file),
                   !.step = 1]

CodecNext ==
    /\ \/ CodecMarshal
       \/ CodecMarshalBack
       \/ CodecUnmarshal
       \/ CodecDecode
       \/ CodecEncode
       \/ CodecDecodeBack
       \/ CodecInitKdcProxy
    /\ UNCHANGED <<pc, hdr, data, msg, fwd, open, attempts, resolved, resp,
                   written, gates, admitted, limiter, allowLog, refills,
                   arrivals, forwards, wire, metrics>>

CodecSpec == CodecInit /\ [][CodecNext]_vars

(***************************************************************************)
(* What the claims speak of.                                               *)
(***************************************************************************)
Range(f) == {f[i] : i \in DOMAIN f}

IsPrefix(a, b) == Len(a) <= Len(b) /\ \A i \in DOMAIN a : a[i] = b[i]

\* Handler has ended for r, by returning or by a panic
Ended(r) == pc[r] \in {"done", "panicked"}

\* forward() was called for r and has returned
ForwardReturned(r) ==
    /\ "Forward" \in Range(gates[r])
    /\ pc[r] \in {"Encode", "Respond", "done"}

\* the status codes written for r
Codes(r) == [i \in DOMAIN written[r] |-> written[r][i].code]

\* the number of tokens Allow() has granted
Granted == Cardinality({i \in DOMAIN allowLog : allowLog[i]})

\* the payload length of the Kerberos message of r, without its prefix
PayloadLen(r) == Len(msg[r].KerbMessage) - 4

\* the attempts of r over the protocol given, in order
AttemptsOver(r, proto) ==
    SelectSeq(attempts[r], LAMBDA a : a.proto = proto)

GateOrder ==
    <<"MethodCheck", "LengthCheck", "BodyRead", "AdmissionCheck", "Decode",
      "RealmCheck", "Forward", "Encode", "Respond">>

\* the statuses a gate answers when it fails
GateStatuses(gate) ==
    CASE gate = "MethodCheck" -> {405}
      [] gate = "LengthCheck" -> {411, 413}
      [] gate = "BodyRead" -> {500}
      [] gate = "AdmissionCheck" -> {429}
      [] gate = "Decode" -> {400}
      [] gate = "RealmCheck" -> {400}
      [] gate = "Forward" -> {503}
      [] gate = "Encode" -> {500}
      [] OTHER -> {}

\* C1: the gates of Handler run in the fixed order; a request whose Handler
\* has ended got exactly one response, 200 if every gate ran and else the
\* status of the last gate that ran, the one that failed; nothing is written
\* before.
C1_GatesInOrderOneResponse ==
    \A r \in Reqs :
        /\ IsPrefix(gates[r], GateOrder)
        /\ Len(written[r]) <= 1
        /\ written[r] # <<>> => Ended(r)
        /\ Ended(r) =>
             /\ Len(written[r]) = 1
             /\ IF gates[r] = GateOrder
                THEN Codes(r) = <<200>>
                ELSE /\ gates[r] # <<>>
                     /\ Codes(r)[1] \in GateStatuses(gates[r][Len(gates[r])])

\* a request panicked in Decode: no response at all
C1_PanicNoResponse ==
    \E r \in Reqs : pc[r] = "panicked" /\ written[r] = <<>>

\* C2: once forward() has returned a reply, the reply is that of the last
\* attempt, which succeeded, every earlier attempt failed, and no error is
\* returned; an attempt that succeeded is never followed by another.
C2_FirstSuccessWins ==
    \A r \in Reqs :
        /\ \A i \in DOMAIN attempts[r] :
             attempts[r][i].out = "ok" =>
                 /\ i = Len(attempts[r])
                 /\ ForwardReturned(r)
                 /\ ~resp[r].err
        /\ (ForwardReturned(r) /\ ~resp[r].err) =>
             /\ attempts[r] # <<>>
             /\ attempts[r][Len(attempts[r])].out = "ok"
             /\ resp[r].bytes = attempts[r][Len(attempts[r])].reply
             /\ \A i \in 1..(Len(attempts[r]) - 1) : attempts[r][i].out = "fail"

\* the resolver returned two KDCs, the first attempt failed, the second
\* succeeded and its reply was returned
C2_Failover ==
    \E r \in Reqs :
        /\ ForwardReturned(r) /\ ~resp[r].err
        /\ Len(attempts[r]) = 2
        /\ attempts[r][1].proto = attempts[r][2].proto
        /\ attempts[r][1].out = "fail"
        /\ attempts[r][2].out = "ok"
        /\ resp[r].bytes = attempts[r][2].reply
        /\ resp[r].bytes # <<>>

\* every protocol of the preference list was resolved, and every address the
\* resolver gave was attempted and failed
Exhausted(r) ==
    LET prefs == IF PayloadLen(r) > UDPPreferenceLimit
                 THEN <<"tcp">> ELSE <<"udp", "tcp">>
    IN  /\ Len(resolved[r]) = Len(prefs)
        /\ \A i \in DOMAIN prefs :
             /\ resolved[r][i].proto = prefs[i]
             /\ {a.kdc : a \in Range(AttemptsOver(r, prefs[i]))}
                    = 1..resolved[r][i].c
        /\ \A a \in Range(attempts[r]) : a.out = "fail"

\* C3: forward() has failed exactly when every protocol was resolved and
\* every address of every protocol was attempted and failed; Handler then
\* answers 503.
C3_FailsIffExhausted ==
    \A r \in Reqs :
        ForwardReturned(r) =>
            /\ resp[r].err <=> Exhausted(r)
            /\ resp[r].err <=> (Codes(r) = <<503>>)

\* the resolver gave no address for any protocol and forward() failed
C3_NoAddresses ==
    \E r \in Reqs :
        /\ ForwardReturned(r) /\ resp[r].err
        /\ Len(resolved[r]) = 2
        /\ attempts[r] = <<>>

\* the resolver gave addresses and every attempt failed
C3_AllFailed ==
    \E r \in Reqs :
        /\ ForwardReturned(r) /\ resp[r].err
        /\ Len(attempts[r]) = 2 * MaxKdcs

\* C4: within one forward() the UDP attempts come before the TCP attempts,
\* and the addresses of one protocol are attempted in the preference order of
\* the resolver: the i-th attempt over a protocol dials its i-th KDC.
C4_ResolverOrder ==
    \A r \in Reqs :
        /\ \A i, j \in DOMAIN attempts[r] :
             (i < j /\ attempts[r][i].proto = "tcp") => attempts[r][j].proto = "tcp"
        /\ \A proto \in {"udp", "tcp"} :
             \A i \in DOMAIN AttemptsOver(r, proto) :
                 AttemptsOver(r, proto)[i].kdc = i

\* the protocols alone keep their order: no UDP attempt follows a TCP attempt
C4_UdpBeforeTcp ==
    \A r \in Reqs :
        \A i, j \in DOMAIN attempts[r] :
            (i < j /\ attempts[r][i].proto = "tcp") => attempts[r][j].proto = "tcp"

\* C5: when forward() has returned, no connection it dialed is left open; a
\* connection is open only while its attempt writes or reads.
C5_ConnectionsClosed ==
    \A r \in Reqs :
        /\ ForwardReturned(r) => open[r] = {}
        /\ open[r] # {} => pc[r] \in {"fwd_write", "fwd_read"}

\* forward() has returned after an attempt failed and a later one, whose
\* connection was written to and read from, succeeded
C5_ReturnedAfterUse ==
    \E r \in Reqs :
        /\ ForwardReturned(r)
        /\ Len(attempts[r]) >= 2
        /\ attempts[r][Len(attempts[r])].out = "ok"
        /\ open[r] = {}

\* a valid envelope, nothing after it, whose kerb_message has fewer than 4 bytes
ShortEnvelope(d) ==
    /\ d.kind = "der"
    /\ d.rest = 0
    /\ Len(d.env.KerbMessage) < 4

\* C6: Handler never ends by a panic, and a valid envelope whose kerb_message
\* has fewer than 4 bytes is answered 400 by the Decode gate.
C6_ShortKerbMessageIs400 ==
    \A r \in Reqs :
        /\ pc[r] # "panicked"
        /\ (ShortEnvelope(data[r]) /\ "Decode" \in Range(gates[r])) =>
               Codes(r) = <<400>>

\* C7: forward() tries udp then tcp when the payload is at most
\* UDPPreferenceLimit bytes and tcp alone when it is more; no GetKDCs call and
\* no dial is over udp for a payload above the limit.
C7_ProtocolSelection ==
    \A r \in Reqs :
        "Forward" \in Range(gates[r]) =>
            /\ PayloadLen(r) <= UDPPreferenceLimit => fwd[r].protocols = <<"udp", "tcp">>
            /\ PayloadLen(r) > UDPPreferenceLimit => fwd[r].protocols = <<"tcp">>
            /\ \A a \in Range(attempts[r]) :
                 a.proto = "udp" => PayloadLen(r) <= UDPPreferenceLimit
            /\ \A q \in Range(resolved[r]) :
                 q.proto = "udp" => PayloadLen(r) <= UDPPreferenceLimit

\* a payload of exactly the limit was sent over udp
C7_AtLimitDialsUdp ==
    \E r \in Reqs :
        /\ PayloadLen(r) = UDPPreferenceLimit
        /\ \E a \in Range(attempts[r]) : a.proto = "udp"

\* a payload of the limit plus one was sent over tcp, after no udp attempt
C7_OverLimitDialsTcp ==
    \E r \in Reqs :
        /\ PayloadLen(r) = UDPPreferenceLimit + 1
        /\ attempts[r] # <<>>

\* C8: a request for which anything was decoded, resolved, dialed or forwarded
\* was granted a token; a request denied one is answered 429 by the admission
\* gate, the last gate it runs; forward() was called at most as many times as
\* tokens were granted.
C8_NoForwardWithoutToken ==
    /\ forwards <= Granted
    /\ \A r \in Reqs :
        /\ (\/ resolved[r] # <<>>
            \/ attempts[r] # <<>>
            \/ open[r] # {}
            \/ msg[r] # NoMsg
            \/ "Decode" \in Range(gates[r])
            \/ "Forward" \in Range(gates[r])) => admitted[r] = "yes"
        /\ admitted[r] = "no" =>
             /\ pc[r] = "done"
             /\ Codes(r) = <<429>>
             /\ gates[r] = SubSeq(GateOrder, 1, 4)

\* a request was denied a token
C8_Denied ==
    \E r \in Reqs :
        /\ admitted[r] = "no"
        /\ Codes(r) = <<429>>
        /\ forwards = Granted
        /\ forwards > 0

\* C9: the bucket holds between 0 and its capacity; while no token has been
\* put back, the i-th Allow() call is granted exactly when i is at most the
\* limit the limiter was made with; a request at the admission gate can
\* always take its step.
C9_FirstCAllowed ==
    /\ limiter.tokens >= 0
    /\ limiter.tokens <= limiter.burst
    /\ refills = 0 =>
         \A i \in DOMAIN allowLog : allowLog[i] <=> (i <= limiter.rate)
    /\ \A r \in Reqs : pc[r] = "AdmissionCheck" => ENABLED AdmissionCheck(r)

\* capacity 1: the first call granted, the second denied
C9_SecondDenied ==
    /\ limiter.rate = 1
    /\ refills = 0
    /\ allowLog = <<TRUE, FALSE>>

\* C10: whatever the interleaving, the tokens granted are at most the tokens
\* the bucket held at first plus those put back, so at most k requests pass
\* with k tokens and no refill; what is left is what was not granted.
C10_AtMostKPass ==
    /\ Granted <= limiter.rate + refills
    /\ limiter.tokens = limiter.rate + refills - Granted
    /\ refills = 0 =>
         Cardinality({r \in Reqs : admitted[r] = "yes"}) <= limiter.rate

\* two requests in flight met at the admission gate with one token: one
\* passed and is still being handled, the other was denied
C10_OneOfTwoPasses ==
    /\ limiter.rate = 1
    /\ refills = 0
    /\ admitted["r1"] = "yes"
    /\ pc["r1"] = "Decode"
    /\ admitted["r2"] = "no"

\* Handler has answered r with the one status given, at the gate given, the
\* last gate it ran
AnsweredAt(r, gate, code) ==
    /\ pc[r] = "done"
    /\ Codes(r) = <<code>>
    /\ gates[r] # <<>>
    /\ gates[r][Len(gates[r])] = gate

\* nothing of r has reached the resolver or a KDC
NoKdcContact(r) ==
    /\ resolved[r] = <<>>
    /\ attempts[r] = <<>>
    /\ open[r] = {}
    /\ "Forward" \notin Range(gates[r])

\* C11: forward() is never called with an empty realm, and GetKDCs never
\* asked for one: a request whose classification gave the empty realm is
\* answered 400 by the realm gate, with no Resolver call and no dial.
C11_NoForwardOfEmptyRealm ==
    \A r \in Reqs :
        /\ "Forward" \in Range(gates[r]) => msg[r].TargetDomain # ""
        /\ \A q \in Range(resolved[r]) : q.realm # ""
        /\ (msg[r].TargetDomain = "" /\ "RealmCheck" \in Range(gates[r])) =>
               /\ AnsweredAt(r, "RealmCheck", 400)
               /\ NoKdcContact(r)

\* an AS-REQ whose request body names no realm was answered 400
C11_EmptyRealmRefused ==
    \E r \in Reqs :
        /\ msg[r].TargetDomain = ""
        /\ msg[r].KerbMessage = Framed(Payload(TagASReq, 0, UDPPreferenceLimit))
        /\ AnsweredAt(r, "RealmCheck", 400)

\* the kerb_message has its 4 bytes of prefix and a payload that no request
\* parser accepts
NoneParses(km) ==
    /\ Len(km) >= 4
    /\ ASReqUnmarshal(SliceFrom(km, 4)).err
    /\ TGSReqUnmarshal(SliceFrom(km, 4)).err
    /\ APReqUnmarshal(SliceFrom(km, 4)).err

\* the body is a valid envelope, nothing after it, of such a kerb_message
Unclassifiable(d) ==
    /\ d.kind = "der"
    /\ d.rest = 0
    /\ NoneParses(d.env.KerbMessage)

\* C12: a request whose payload parses as none of AS-REQ, TGS-REQ, AP-REQ
\* fails in decode: once the Decode gate has run it is answered 400 there, no
\* message is kept and nothing of it has reached the resolver or a KDC; no
\* message that decode returned has such a payload.
C12_UnclassifiableIs400 ==
    \A r \in Reqs :
        /\ (Unclassifiable(data[r]) /\ "Decode" \in Range(gates[r])) =>
               /\ AnsweredAt(r, "Decode", 400)
               /\ msg[r] = NoMsg
               /\ NoKdcContact(r)
        /\ msg[r] # NoMsg => ~NoneParses(msg[r].KerbMessage)

\* a KRB-ERROR sent as a request was answered 400 by the Decode gate
C12_KrbErrorRefused ==
    \E r \in Reqs :
        /\ data[r] = Der(Env(Framed(Payload(TagKrbError, 1, UDPPreferenceLimit)), "", 0), 0)
        /\ AnsweredAt(r, "Decode", 400)

\* C13: the message decode returned carries the kerb_message unchanged and
\* the realm of the first of AS-REQ, TGS-REQ, AP-REQ that parses its payload:
\* the request-body realm for the first two, the ticket realm for the last;
\* two requests with the same kerb_message get the same realm.
C13_RealmOfFirstKind ==
    \A r \in Reqs :
        msg[r] # NoMsg =>
            LET b == SliceFrom(msg[r].KerbMessage, 4)
            IN  /\ Len(msg[r].KerbMessage) >= 4
                /\ ParsesAs(TagASReq, b) =>
                       msg[r].TargetDomain = RealmOf(b[2])
                /\ (~ParsesAs(TagASReq, b) /\ ~TGSReqUnmarshal(b).err) =>
                       msg[r].TargetDomain = RealmOf(b[2])
                /\ (~ParsesAs(TagASReq, b) /\ TGSReqUnmarshal(b).err) =>
                       /\ ~APReqUnmarshal(b).err
                       /\ msg[r].TargetDomain = TicketRealmOf(b[2])
                /\ \A q \in Reqs :
                       msg[q].KerbMessage = msg[r].KerbMessage =>
                           msg[q].TargetDomain = msg[r].TargetDomain

\* a payload that parses as a TGS-REQ and as an AP-REQ, whose ticket names
\* another realm than its request body, got the realm of the request body
C13_EarliestKindWins ==
    \E r \in Reqs :
        /\ msg[r].KerbMessage =
               Framed(Payload(TagTGSReqAndAPReq, 2, UDPPreferenceLimit + 1))
        /\ msg[r].TargetDomain = "EXAMPLE.COM"
        /\ TicketRealmOf(2) # msg[r].TargetDomain
        /\ "Forward" \in Range(gates[r])

\* an AP-REQ alone got the realm of its ticket
C13_TicketRealm ==
    \E r \in Reqs :
        /\ msg[r].KerbMessage = Framed(Payload(TagAPReq, 2, UDPPreferenceLimit + 1))
        /\ msg[r].TargetDomain = "TICKET.ORG"

\* the attempt of r in progress or just ended
LastAttempt(r) == attempts[r][Len(attempts[r])]

\* getresponse has returned for the attempt of r over the protocol given
ReadEnded(r, proto) ==
    /\ wire[r].read
    /\ attempts[r] # <<>>
    /\ LastAttempt(r).proto = proto

\* the length the first 4 bytes of a stream announce
Announced(stream) == BigEndianUint32(SubSeq(stream, 1, 4))

\* the stream holds 4 bytes of prefix and the bytes the prefix announces
Complete(stream) ==
    /\ Len(stream) >= 4
    /\ Len(stream) - 4 >= Announced(stream)

\* C14: a TCP attempt succeeds exactly when the KDC sent, before the reads
\* ended, 4 bytes of prefix and the N bytes the prefix announces; its result
\* is then those 4 + N bytes and forward() returns it; otherwise the attempt
\* has failed, nothing is answered and forward() is back at its loop over
\* the KDCs.
C14_TcpReplyFraming ==
    \A r \in Reqs :
        ReadEnded(r, "tcp") =>
            /\ LastAttempt(r).out = "ok" <=> Complete(wire[r].stream)
            /\ LastAttempt(r).out = "ok" =>
                   /\ LastAttempt(r).reply =
                          SubSeq(wire[r].stream, 1, 4 + Announced(wire[r].stream))
                   /\ ForwardReturned(r)
                   /\ resp[r].bytes = LastAttempt(r).reply
            /\ LastAttempt(r).out # "ok" =>
                   /\ LastAttempt(r).out = "fail"
                   /\ pc[r] = "fwd_kdc"
                   /\ written[r] = <<>>

\* the KDC sent one byte more than its prefix announced: the reply is the
\* prefix and the one byte announced
C14_ExactlyNBytes ==
    \E r \in Reqs :
        /\ ReadEnded(r, "tcp")
        /\ wire[r].stream = <<0, 0, 0, 1, TagASRep, 1>>
        /\ resp[r].bytes = <<0, 0, 0, 1, TagASRep>>

\* the KDC sent one byte less than its prefix announced: the attempt failed
C14_ShortReplyFails ==
    \E r \in Reqs :
        /\ ReadEnded(r, "tcp")
        /\ wire[r].stream = <<0, 0, 0, 2, TagASRep>>
        /\ LastAttempt(r).out = "fail"
        /\ pc[r] = "fwd_kdc"

\* C15: a UDP attempt in which the KDC answered with one well-formed reply
\* datagram P, after which nothing ends the read but the deadline, has
\* succeeded with the length of P in 4 bytes followed by P.
C15_UdpReplyAccepted ==
    \A r \in Reqs :
        (/\ ReadEnded(r, "udp")
         /\ validReply(wire[r].stream)
         /\ wire[r].end = "timeout") =>
            /\ LastAttempt(r).out = "ok"
            /\ LastAttempt(r).reply =
                   MarshalKerbLength(Len(wire[r].stream)) \o wire[r].stream

\* the bytes are at least 4 and the first 4 announce the length of the rest
LengthPrefixed(bytes) ==
    /\ Len(bytes) >= 4
    /\ Announced(bytes) = Len(bytes) - 4

\* C16: every reply forward() returned without error, and the reply of every
\* attempt that succeeded, has at least 4 bytes whose first 4 decode to the
\* length of the rest; so has what the UDP branch of getresponse returns,
\* when forward() calls it on a UDP socket and its read ends without error.
C16_ResultLengthPrefixed ==
    /\ \A r \in Reqs :
         /\ (ForwardReturned(r) /\ ~resp[r].err) => LengthPrefixed(resp[r].bytes)
         /\ \A a \in Range(attempts[r]) :
              a.out = "ok" => LengthPrefixed(a.reply)
    /\ \A r \in Reqs :
         (pc[r] = "fwd_read" /\ attempts[r][Len(attempts[r])].proto = protoUdp) =>
             \A bytes \in UdpStreams :
                 ~getresponse(protoUdp, bytes, "EOF").err =>
                     LengthPrefixed(getresponse(protoUdp, bytes, "EOF").resp)

\* forward() returned a reply of 6 bytes read from a TCP connection
C16_TcpResult ==
    \E r \in Reqs :
        /\ ForwardReturned(r) /\ ~resp[r].err
        /\ LastAttempt(r).proto = "tcp"
        /\ Len(resp[r].bytes) = 6

\* C17: when the last attempt of a request was over TCP and the KDC sent a
\* correctly length-prefixed reply, Handler answers 200, once, with a body
\* that decodes, nothing left over, to an envelope whose kerb_message is the
\* reply as the KDC sent it, prefix included.
C17_TcpEndToEnd ==
    \A r \in Reqs :
        (/\ pc[r] = "done"
         /\ ReadEnded(r, "tcp")
         /\ LengthPrefixed(wire[r].stream)) =>
            /\ Codes(r) = <<200>>
            /\ LET u == Asn1Unmarshal(written[r][1].body)
               IN  /\ ~u.err
                   /\ u.rest = 0
                   /\ u.m.KerbMessage = wire[r].stream

\* an AS-REQ for EXAMPLE.COM was answered 200 with the reply of the KDC
C17_ASReqAnswered ==
    \E r \in Reqs :
        /\ pc[r] = "done"
        /\ msg[r].KerbMessage = Framed(Payload(TagASReq, 1, UDPPreferenceLimit))
        /\ msg[r].TargetDomain = "EXAMPLE.COM"
        /\ ReadEnded(r, "tcp")
        /\ wire[r].stream = <<0, 0, 0, 2, TagASRep, 1>>
        /\ Codes(r) = <<200>>
        /\ written[r][1].body.env.KerbMessage = <<0, 0, 0, 2, TagASRep, 1>>

\* C18: what forward() hands to conn.Write is the kerb_message as the client
\* sent it for TCP, and the kerb_message less its first 4 bytes for UDP.
C18_BytesSent ==
    \A r \in Reqs :
        wire[r].wrote # "-" =>
            /\ attempts[r] # <<>>
            /\ msg[r].KerbMessage \in FramedKerbs
            /\ LastAttempt(r).proto = "tcp" => wire[r].req = msg[r].KerbMessage
            /\ LastAttempt(r).proto = "udp" =>
                   /\ Len(wire[r].req) = Len(msg[r].KerbMessage) - 4
                   /\ msg[r].KerbMessage = Framed(wire[r].req)

\* the payload of an AS-REQ was written to a UDP socket without its prefix
C18_UdpUnframed ==
    \E r \in Reqs :
        /\ wire[r].wrote = "ok"
        /\ LastAttempt(r).proto = "udp"
        /\ wire[r].req = Payload(TagASReq, 1, UDPPreferenceLimit)

\* the same AS-REQ was written to a TCP connection with its prefix
C18_TcpFramed ==
    \E r \in Reqs :
        /\ wire[r].wrote = "ok"
        /\ LastAttempt(r).proto = "tcp"
        /\ wire[r].req = Framed(Payload(TagASReq, 1, UDPPreferenceLimit))

\* C19: after a write that returned an error or a short count the attempt
\* has failed, its connection is closed and was not read from, nothing is
\* answered and forward() is back at its loop over the KDCs.
C19_FailedWriteAbandons ==
    \A r \in Reqs :
        wire[r].wrote \in {"err", "short"} =>
            /\ ~wire[r].read
            /\ wire[r].stream = <<>>
            /\ open[r] = {}
            /\ LastAttempt(r).out = "fail"
            /\ pc[r] = "fwd_kdc"
            /\ written[r] = <<>>
            /\ ~resp[r].err

\* a write came short while another KDC was left to try
C19_ShortWriteNextKdc ==
    \E r \in Reqs :
        /\ wire[r].wrote = "short"
        /\ fwd[r].kdcs # {}
        /\ pc[r] = "fwd_kdc"

\* C20: no buffer is made for a TCP reply longer than maxLength, the bound on
\* lengths the program has: an attempt whose prefix announces more has failed
\* with no buffer made.
C20_ReplyLengthBounded ==
    \A r \in Reqs :
        /\ wire[r].alloc <= maxLength
        /\ (/\ ReadEnded(r, "tcp")
            /\ Len(wire[r].stream) >= 4
            /\ Announced(wire[r].stream) > maxLength) =>
               /\ LastAttempt(r).out = "fail"
               /\ wire[r].alloc = 0

\* C23: every response Handler has written, the 200 and every error, carries
\* the Content-Type application/kerberos.
C23_ContentTypeKerberos ==
    \A r \in Reqs :
        \A i \in DOMAIN written[r] :
            written[r][i].ctype = "application/kerberos"

\* the success path alone: every 200 carries application/kerberos
C23_SuccessContentType ==
    \A r \in Reqs :
        \A i \in DOMAIN written[r] :
            written[r][i].code = 200 =>
                written[r][i].ctype = "application/kerberos"

\* C24: a request that is not a POST is answered 405 by the method gate,
\* whatever its content length; a POST of unknown length (-1) is answered
\* 411 and one of 131073 bytes or more 413, both by the length gate; a POST
\* of exactly 131072 bytes passes the length gate.
C24_LengthBoundaries ==
    \A r \in Reqs :
        /\ ("MethodCheck" \in Range(gates[r]) /\ hdr[r].Method # "POST") =>
               AnsweredAt(r, "MethodCheck", 405)
        /\ ("LengthCheck" \in Range(gates[r])) =>
               /\ hdr[r].Method = "POST"
               /\ hdr[r].ContentLength = -1 => AnsweredAt(r, "LengthCheck", 411)
               /\ hdr[r].ContentLength >= 131073 =>
                      AnsweredAt(r, "LengthCheck", 413)
               /\ hdr[r].ContentLength \in 0..131072 =>
                      /\ ~AnsweredAt(r, "LengthCheck", 411)
                      /\ ~AnsweredAt(r, "LengthCheck", 413)
                      /\ pc[r] = "BodyRead" \/ Len(gates[r]) >= 3

\* a POST of exactly 131072 bytes has passed the length gate
C24_ExactlyMaxPasses ==
    \E r \in Reqs :
        /\ hdr[r] = [Method |-> "POST", ContentLength |-> 131072]
        /\ pc[r] = "BodyRead"

\* a GET of 131073 bytes was answered 405, not 413
C24_MethodFirst ==
    \E r \in Reqs :
        /\ hdr[r] = [Method |-> "GET", ContentLength |-> 131073]
        /\ AnsweredAt(r, "MethodCheck", 405)

\* C21: no blocking operation of an attempt (dial, write, read) begins
\* before the deadline of its connection is armed.
C21_DeadlineArmedFirst ==
    \A r \in Reqs : wire[r].unarmed = {}

\* the writes and the reads alone begin under the deadline
C21_WriteReadArmed ==
    \A r \in Reqs : wire[r].unarmed \subseteq {"dial"}

\* the dials of r over the protocol given
Dials(r, proto) == {i \in DOMAIN attempts[r] : attempts[r][i].proto = proto}

\* the addresses the resolver returned to r for the protocol given
Returned(r, proto) ==
    IF \E q \in Range(resolved[r]) : q.proto = proto
    THEN (CHOOSE q \in Range(resolved[r]) : q.proto = proto).c
    ELSE 0

\* C22: every request the server accepted is in the end answered: Handler
\* reaches its return with exactly one response written.
C22_EveryRequestAnswered ==
    \A r \in Reqs :
        (pc[r] # "idle") ~> (pc[r] = "done" /\ Len(written[r]) = 1)

\* forward() resolves a protocol at most once, dials each address of a
\* protocol at most once, and so dials at most as many times as the resolver
\* returned addresses
C22_AttemptsBounded ==
    \A r \in Reqs :
        /\ \A i, j \in DOMAIN resolved[r] :
             resolved[r][i].proto = resolved[r][j].proto => i = j
        /\ \A i, j \in DOMAIN attempts[r] :
             (/\ attempts[r][i].proto = attempts[r][j].proto
              /\ attempts[r][i].kdc = attempts[r][j].kdc) => i = j
        /\ \A proto \in {"udp", "tcp"} :
             Cardinality(Dials(r, proto)) <= Returned(r, proto)
        /\ Len(attempts[r]) <= Returned(r, "udp") + Returned(r, "tcp")

\* Handler ends for every request, by its return or by the panic of decode
C22_HandlerEnds ==
    \A r \in Reqs : (pc[r] # "idle") ~> Ended(r)

\* the body d with another dc_locator_hint in its envelope
WithHint(d, h) == [d EXCEPT !.env.DcLocatorHint = h]

\* the dc_locator_hint values a client can send
Hints == {0, 1}

\* C25: when Handler calls decode, decode gives the same result whatever the
\* dc_locator_hint of the envelope, and the message Handler keeps from it,
\* all that forward() is given, is the kerb_message and the realm classified
\* and nothing else; so two requests that differ in the hint only are the
\* same request from decode on.
C25_HintNotInterpreted ==
    \A r \in Reqs :
        /\ (pc[r] = "Decode" /\ data[r].kind = "der") =>
               \A h \in Hints : decode(WithHint(data[r], h)) = decode(data[r])
        /\ msg[r] # NoMsg =>
               /\ DOMAIN msg[r] = {"KerbMessage", "TargetDomain"}
               /\ msg[r].KerbMessage = data[r].env.KerbMessage
               /\ pc[r] = "RealmCheck" => msg[r] = decode(data[r]).msg
        /\ \A q \in Reqs \ {r} :
               (/\ msg[r] # NoMsg /\ msg[q] # NoMsg
                /\ data[r].kind = "der" /\ data[q].kind = "der"
                /\ WithHint(data[r], 0) = WithHint(data[q], 0)) =>
                   /\ msg[r] = msg[q]
                   /\ Protocols(msg[r]) = Protocols(msg[q])

\* a request whose envelope carries the hint 1 was forwarded to the KDC of
\* the realm of its AS-REQ and answered 200
C25_HintedRequestAnswered ==
    \E r \in Reqs :
        /\ data[r].kind = "der"
        /\ data[r].env.DcLocatorHint = 1
        /\ msg[r].TargetDomain = "EXAMPLE.COM"
        /\ \A q \in Range(resolved[r]) : q.realm = "EXAMPLE.COM"
        /\ AnsweredAt(r, "Respond", 200)

\* the response Handler gives a request handled alone, from what the request
\* is and what the limiter, the resolver and the KDCs did for it
AloneResponse(r) ==
    IF MethodStatus(hdr[r].Method) # 0
    THEN HttpError(MethodStatus(hdr[r].Method))
    ELSE IF LengthStatus(hdr[r].ContentLength) # 0
    THEN HttpError(LengthStatus(hdr[r].ContentLength))
    ELSE IF data[r] = NoData THEN HttpError(StatusInternalServerError)
    ELSE IF admitted[r] = "no" THEN HttpError(StatusTooManyRequests)
    ELSE IF decode(data[r]).out = "err" THEN HttpError(StatusBadRequest)
    ELSE IF decode(data[r]).msg.TargetDomain = ""
    THEN HttpError(StatusBadRequest)
    ELSE IF attempts[r] = <<>> \/ LastAttempt(r).out # "ok"
    THEN HttpError(StatusServiceUnavailable)
    ELSE Response(StatusOK, encode(LastAttempt(r).reply).enc)

\* all that the model keeps for the request r alone
PerRequest(r) ==
    <<pc[r], hdr[r], data[r], msg[r], fwd[r], open[r], attempts[r],
      resolved[r], resp[r], written[r], gates[r], admitted[r], wire[r]>>

\* C26: whatever the interleaving, a request that Handler has answered got
\* the response it would get handled alone, given what the limiter, the
\* resolver and the KDCs did for it; the message forwarded for it is that of
\* its own body; and no step of one request changes anything kept for
\* another.
C26_RequestsIndependent ==
    /\ [](\A r \in Reqs :
            /\ pc[r] = "done" => written[r] = <<AloneResponse(r)>>
            /\ msg[r] # NoMsg => msg[r] = decode(data[r]).msg
            /\ (ForwardReturned(r) /\ ~resp[r].err) =>
                   resp[r].bytes = LastAttempt(r).reply)
    /\ [][\A r, q \in Reqs :
            r # q => (PerRequest(r)' = PerRequest(r) \/ PerRequest(q)' = PerRequest(q))]_vars

\* two requests, both granted a token, are in forward() at once: the KDC of
\* one has answered, that of the other has failed
C26_TwoInForward ==
    /\ admitted["r1"] = "yes" /\ admitted["r2"] = "yes"
    /\ pc["r1"] = "Respond"
    /\ resp["r1"].bytes = <<0, 0, 0, 0>>
    /\ pc["r2"] = "fwd_kdc"
    /\ attempts["r2"] # <<>>
    /\ LastAttempt("r2").out = "fail"

\* MarshalKerbLength was called on n, of the halves codec.arg
Marshalled == codec.fn = "MarshalKerbLength" /\ codec.step >= 1

\* C27: UnmarshalKerbLength of the bytes MarshalKerbLength made of n, for n
\* from 0 to 2^32 - 1, is n with no error; below 2^31, where the model holds
\* n as one integer, the two functions as the proxy calls them agree.
C27_LengthRoundTrip ==
    /\ (codec.fn = "MarshalKerbLength" /\ codec.step = 2) =>
           /\ ~codec.back.err
           /\ codec.back.n = codec.arg
    /\ (Marshalled /\ codec.arg[1] < 32768) =>
           UnmarshalKerbLength(MarshalKerbLength(IntOf(codec.arg)))
               = [n |-> IntOf(codec.arg), err |-> FALSE]

\* 2^32 - 1 went through MarshalKerbLength and UnmarshalKerbLength and back
C27_MaxUint32 ==
    /\ codec.fn = "MarshalKerbLength" /\ codec.step = 2
    /\ codec.arg = <<65535, 65535>>
    /\ codec.out = <<255, 255, 255, 255>>
    /\ codec.back = [n |-> <<65535, 65535>>, err |-> FALSE]

\* C28: UnmarshalKerbLength returns an error and 0 for a slice of fewer than
\* 4 bytes, nil among them, and for a slice of 4 bytes or more, without
\* error, the big-endian value of its first 4 bytes, up to 2^32 - 1.
C28_UnmarshalKerbLength ==
    (codec.fn = "UnmarshalKerbLength" /\ codec.step = 1) =>
        LET b == codec.arg
        IN  /\ Len(b) < 4 => codec.out = [n |-> <<0, 0>>, err |-> TRUE]
            /\ Len(b) >= 4 =>
                   /\ ~codec.out.err
                   /\ codec.out.n = <<b[1] * 256 + b[2], b[3] * 256 + b[4]>>
                   /\ b[1] < 128 =>
                          UnmarshalKerbLength(b) =
                              [n |-> ((b[1] * 256 + b[2]) * 256 + b[3]) * 256 + b[4],
                               err |-> FALSE]
            /\ Len(b) < 4 => UnmarshalKerbLength(b) = [n |-> 0, err |-> TRUE]

\* the slice ff ff ff ff decoded to 2^32 - 1
C28_NoUpperBound ==
    /\ codec.fn = "UnmarshalKerbLength" /\ codec.step = 1
    /\ codec.arg = <<255, 255, 255, 255>>
    /\ codec.out = [n |-> <<65535, 65535>>, err |-> FALSE]

\* a slice of 3 bytes gave the error
C28_ShortSliceFails ==
    /\ codec.fn = "UnmarshalKerbLength" /\ codec.step = 1
    /\ Len(codec.arg) = 3
    /\ codec.out.err

\* C29: MarshalKerbLength(n), for n from 0 to 2^32 - 1, is exactly 4 bytes,
\* the most significant first: the first two make the high half of n and
\* the last two its low half; 257 gives 0, 0, 1, 1.
C29_MarshalKerbLength ==
    Marshalled =>
        LET b == codec.out
        IN  /\ Len(b) = 4
            /\ \A i \in 1..4 : b[i] \in 0..255
            /\ b[1] * 256 + b[2] = codec.arg[1]
            /\ b[3] * 256 + b[4] = codec.arg[2]
            /\ codec.arg = <<0, 257>> => b = <<0, 0, 1, 1>>
            /\ codec.arg[1] < 32768 => MarshalKerbLength(IntOf(codec.arg)) = b

\* 257 was encoded as 0, 0, 1, 1
C29_Encodes257 ==
    /\ Marshalled
    /\ codec.arg = <<0, 257>>
    /\ codec.out = <<0, 0, 1, 1>>

\* decode was called on a valid envelope with nothing after it
DecodedValid ==
    /\ codec.fn = "decode" /\ codec.step >= 1
    /\ codec.arg.kind = "der"
    /\ codec.arg.rest = 0

\* C30: decode of a valid envelope with no trailing bytes returns a message,
\* and decode of the encoding of its kerb_message returns the kerb_message
\* of the envelope, byte for byte.
C30_EnvelopeRoundTrip ==
    DecodedValid =>
        /\ codec.out.out = "ok"
        /\ codec.step = 3 =>
               /\ codec.back.out = "ok"
               /\ codec.back.msg.KerbMessage = codec.arg.env.KerbMessage

\* the round trip keeps the kerb_message whenever the first decode returned
\* a message: the envelope of a request that classifies
C30_ClassifiedRoundTrip ==
    (DecodedValid /\ codec.step = 3) =>
        /\ codec.back.out = "ok"
        /\ codec.back.msg.KerbMessage = codec.arg.env.KerbMessage

\* C31: decode fails for every body that is a valid encoded envelope followed
\* by at least one more byte, whatever the envelope holds: no message is
\* kept, and Handler answers 400 at Decode without a Resolver call or a dial.
C31_TrailingDataIs400 ==
    \A r \in Reqs :
        (data[r].kind = "der" /\ data[r].rest > 0) =>
            /\ ~Asn1Unmarshal(data[r]).err
            /\ decode(data[r]).out = "err"
            /\ msg[r] = NoMsg
            /\ NoKdcContact(r)
            /\ "Decode" \in Range(gates[r]) => AnsweredAt(r, "Decode", 400)

\* an envelope that decodes to a forwardable AS-REQ when sent alone was
\* sent with one byte after it and answered 400
C31_TrailingByteRefused ==
    \E r \in Reqs :
        /\ data[r].kind = "der"
        /\ data[r].rest = 1
        /\ decode(Der(data[r].env, 0)).out = "ok"
        /\ AnsweredAt(r, "Decode", 400)

\* InitKdcProxy was called on its own and has returned
Constructed == codec.fn = "InitKdcProxy" /\ codec.step = 1

\* the arguments of the options of one kind among opts, in order
OptionsOf(opts, kind) == SelectSeq(opts, LAMBDA o : o.opt = kind)

\* the config path the options leave set: that of the last WithConfig, ""
\* (none) without one
ConfigPath(opts) ==
    LET cs == OptionsOf(opts, "WithConfig")
    IN  IF cs = <<>> THEN "" ELSE cs[Len(cs)].config

\* the limit the options ask for: that of the last WithLimit,
\* DefaultRateLimit without one
LimitAsked(opts) ==
    LET ls == OptionsOf(opts, "WithLimit")
    IN  IF ls = <<>> THEN DefaultRateLimit ELSE ls[Len(ls)].limit

\* C32, as amended: InitKdcProxy returns an error and no proxy whenever a
\* config path was set by WithConfig and the file does not load; with no
\* config path it never fails and yields a proxy that looks KDCs up via DNS,
\* whose limiter has rate and burst DefaultRateLimit (10) when no WithLimit
\* option was given and the limit of the last WithLimit option otherwise.
C32_ConstructionAmended ==
    Constructed =>
        LET opts == codec.arg.opts
            out == codec.out
        IN  /\ (ConfigPath(opts) # "" /\ codec.arg.file = "absent") =>
                   out.err /\ out.kp = NoProxy
            /\ ConfigPath(opts) = "" =>
                   /\ ~out.err
                   /\ out.kp.krb5Config.DNSLookupKDC
                   /\ out.kp.limiter.rate = LimitAsked(opts)
                   /\ out.kp.limiter.burst = LimitAsked(opts)
            /\ OptionsOf(opts, "WithLimit") = <<>> /\ ~out.err =>
                   out.kp.limiter = NewLimiter(DefaultRateLimit, DefaultRateLimit)

\* InitKdcProxy(WithConfig("krb5.conf")) with no such file gave an error and
\* no proxy
C32_MissingConfigFails ==
    /\ Constructed
    /\ codec.arg.opts = <<Option("WithConfig", "krb5.conf", 0)>>
    /\ codec.arg.file = "absent"
    /\ codec.out.err
    /\ codec.out.kp = NoProxy

\* InitKdcProxy() gave a proxy that uses DNS and a limiter of 10
C32_Defaults ==
    /\ Constructed
    /\ codec.arg.opts = <<>>
    /\ ~codec.out.err
    /\ codec.out.kp.krb5Config.DNSLookupKDC
    /\ codec.out.kp.limiter = NewLimiter(10, 10)

\* C32 as stated: with no config path the limiter has rate and burst
\* DefaultRateLimit, whatever the other options.
C32_NoConfigLimiterIsDefault ==
    Constructed =>
        LET opts == codec.arg.opts
            out == codec.out
        IN  /\ (ConfigPath(opts) # "" /\ codec.arg.file = "absent") =>
                   out.err /\ out.kp = NoProxy
            /\ ConfigPath(opts) = "" =>
                   /\ ~out.err
                   /\ out.kp.krb5Config.DNSLookupKDC
                   /\ out.kp.limiter = NewLimiter(DefaultRateLimit, DefaultRateLimit)

\* the gates before the admission check
EarlyGates == {"MethodCheck", "LengthCheck", "BodyRead"}

\* r was refused after the admission check, by Decode, by the realm check or
\* by forward()
RefusedLate(r) ==
    \/ AnsweredAt(r, "Decode", 400)
    \/ AnsweredAt(r, "RealmCheck", 400)
    \/ AnsweredAt(r, "Forward", 503)

\* r takes the step of the admission check
AdmissionStep(r) == pc[r] = "AdmissionCheck" /\ pc'[r] # "AdmissionCheck"

\* C33: a request that has passed MethodCheck, LengthCheck and BodyRead takes
\* one token at the admission check when there is one; the bucket holds what
\* it held at first, plus the refills, minus the tokens granted, also after
\* a request that had its token was refused by Decode, by the realm check or
\* by forward(): no token goes back; and no step of Handler other than the
\* admission check changes the bucket, so a request refused by an earlier
\* gate takes none.
C33_TokenConsumedNotRefunded ==
    /\ [](/\ limiter.tokens = limiter.burst + refills - Granted
          /\ \A r \in Reqs :
                /\ admitted[r] = "-" <=> "AdmissionCheck" \notin Range(gates[r])
                /\ "AdmissionCheck" \in Range(gates[r]) =>
                       \A g \in EarlyGates : g \in Range(gates[r])
                /\ RefusedLate(r) => admitted[r] = "yes")
    /\ [][/\ \A r \in Reqs :
               AdmissionStep(r) =>
                   IF limiter.tokens >= 1
                   THEN /\ limiter'.tokens = limiter.tokens - 1
                        /\ admitted'[r] = "yes"
                   ELSE /\ limiter' = limiter
                        /\ admitted'[r] = "no"
          /\ (\A r \in Reqs : ~AdmissionStep(r)) =>
               \/ limiter' = limiter
               \/ /\ refills' = refills + 1
                  /\ pc' = pc]_vars

\* a request took the only token, was refused by Decode with 400, and the
\* bucket is empty
C33_TokenGoneAfter400 ==
    \E r \in Reqs :
        /\ admitted[r] = "yes"
        /\ AnsweredAt(r, "Decode", 400)
        /\ limiter.burst = 1
        /\ limiter.tokens = 0
        /\ refills = 0

\* a request refused for its method left the bucket full
C33_EarlyRefusalTakesNone ==
    \E r \in Reqs :
        /\ AnsweredAt(r, "MethodCheck", 405)
        /\ admitted[r] = "-"
        /\ limiter.burst = 1
        /\ limiter.tokens = 1
        /\ Granted = 0

\* the body d with another target_domain in its envelope
WithTargetDomain(d, td) == [d EXCEPT !.env.TargetDomain = td]

\* the target_domain values a client can send
TargetDomains == {"", "OTHER.ORG"}

\* C34: the realm GetKDCs is asked for is that of the message Handler keeps,
\* and when forward() looks a protocol up that message is the one decode
\* gives for the same Kerberos message in an envelope without target_domain;
\* when Handler calls decode, decode gives the same result whatever the
\* target_domain of the envelope, so that two requests that differ in it
\* only give forward() the same message, hence the same protocols, Resolver
\* calls and KDCs.
C34_TargetDomainNotUsed ==
    \A r \in Reqs :
        /\ (pc[r] = "Decode" /\ data[r].kind = "der") =>
               \A td \in TargetDomains :
                   decode(WithTargetDomain(data[r], td)) = decode(data[r])
        /\ msg[r] # NoMsg =>
               /\ msg[r].KerbMessage = data[r].env.KerbMessage
               /\ pc[r] \in {"RealmCheck", "fwd_proto"} =>
                      msg[r] = decode(WithTargetDomain(data[r], "")).msg
        /\ \A i \in DOMAIN resolved[r] :
               /\ resolved[r][i].realm = msg[r].TargetDomain
               /\ resolved[r][i].proto = fwd[r].protocols[i]
        /\ pc[r] = "fwd_proto" => fwd[r].protocols = Protocols(msg[r])
        /\ \A q \in Reqs \ {r} :
               (/\ msg[r] # NoMsg /\ msg[q] # NoMsg
                /\ data[r].kind = "der" /\ data[q].kind = "der"
                /\ WithTargetDomain(data[r], "") = WithTargetDomain(data[q], "")) =>
                   /\ msg[r] = msg[q]
                   /\ Protocols(msg[r]) = Protocols(msg[q])

\* a request whose envelope names OTHER.ORG for target_domain and whose
\* AS-REQ names EXAMPLE.COM had its KDCs looked up for EXAMPLE.COM, and was
\* answered 200
C34_OtherDomainIgnored ==
    \E r \in Reqs :
        /\ data[r].kind = "der"
        /\ data[r].env.TargetDomain = "OTHER.ORG"
        /\ resolved[r] # <<>>
        /\ \A q \in Range(resolved[r]) : q.realm = "EXAMPLE.COM"
        /\ AnsweredAt(r, "Respond", 200)

\* the kinds of reply validReply accepts
ReplyTags == {TagASRep, TagTGSRep, TagAPRep}

\* b parses as an AS-REP, a TGS-REP or an AP-REP
IsReply(b) == \E t \in ReplyTags : ParsesAs(t, b)

\* how the reads of a connection can end, on any network
ReadEnds == {"EOF", "timeout", "refused"}

\* C35: a UDP attempt succeeds only with a reply that parses as AS-REP,
\* TGS-REP or AP-REP: when forward() calls getresponse on a UDP socket,
\* getresponse fails for every other datagram however the read ends, the attempt counts as failed and forward()
\* goes on with the next candidate; a TCP attempt whose stream is a complete
\* length-prefixed reply succeeds whatever the reply is, a KRB-ERROR too.
C35_UdpValidatedTcpNot ==
    \A r \in Reqs :
         /\ (pc[r] = "fwd_read" /\ LastAttempt(r).proto = protoUdp) =>
              \A bytes \in UdpStreams, end \in ReadEnds :
                /\ ~getresponse(protoUdp, bytes, end).err => IsReply(bytes)
                /\ (IsReply(bytes) /\ end = "EOF") =>
                       ~getresponse(protoUdp, bytes, end).err
         /\ \A a \in Range(attempts[r]) :
              (a.proto = "udp" /\ a.out = "ok") => IsReply(SliceFrom(a.reply, 4))
         /\ (ReadEnded(r, "udp") /\ ~IsReply(wire[r].stream)) =>
              /\ LastAttempt(r).out = "fail"
              /\ pc[r] = "fwd_kdc"
              /\ resp[r] = NoResp
         /\ (ReadEnded(r, "tcp") /\ Complete(wire[r].stream)) =>
              /\ LastAttempt(r).out = "ok"
              /\ LastAttempt(r).reply =
                     SubSeq(wire[r].stream, 1, 4 + Announced(wire[r].stream))
              /\ pc[r] \in {"Encode", "Respond", "done"}

\* the KDC answered a UDP attempt with a KRB-ERROR: the attempt failed and
\* forward() is at the next candidate
C35_UdpKrbErrorFails ==
    \E r \in Reqs :
        /\ ReadEnded(r, "udp")
        /\ wire[r].stream = <<TagKrbError, 1>>
        /\ LastAttempt(r).out = "fail"
        /\ pc[r] = "fwd_kdc"

\* the KDC answered a TCP attempt with a KRB-ERROR: the request was answered
\* 200 with it
C35_TcpKrbErrorAccepted ==
    \E r \in Reqs :
        /\ ReadEnded(r, "tcp")
        /\ wire[r].stream = <<0, 0, 0, 2, TagKrbError, 1>>
        /\ ~IsReply(SliceFrom(wire[r].stream, 4))
        /\ AnsweredAt(r, "Respond", 200)

\* the GetKDCs call of r for the protocol given returned an error, or no KDC
LookupFailed(r, proto) ==
    \E q \in Range(resolved[r]) : q.proto = proto /\ (q.err \/ q.c < 1)

\* C36: when GetKDCs gave an error or no address for udp, forward() has not
\* returned before it asked GetKDCs for tcp, and when that call gave KDCs it
\* has not returned an error before it dialled each of them; the error of
\* GetKDCs ends nothing by itself: forward() fails only once every protocol
\* was looked up, and then with its own error, answered 503.
C36_TcpTriedAfterUdpLookupFails ==
    \A r \in Reqs :
        /\ (LookupFailed(r, "udp") /\ Len(resolved[r]) = 1) =>
               /\ pc[r] = "fwd_proto"
               /\ fwd[r].protocols = <<protoUdp, protoTcp>>
               /\ fwd[r].pi = 1
               /\ attempts[r] = <<>>
               /\ written[r] = <<>>
        /\ (LookupFailed(r, "udp") /\ ForwardReturned(r)) =>
               /\ Len(resolved[r]) = 2
               /\ resolved[r][2].proto = protoTcp
               /\ resolved[r][2].realm = resolved[r][1].realm
               /\ \A a \in Range(attempts[r]) : a.proto = protoTcp
               /\ resp[r].err =>
                      {a.kdc : a \in Range(attempts[r])} = 1..resolved[r][2].c
        /\ (\E q \in Range(resolved[r]) : q.err) =>
               /\ pc[r] = "done" =>
                      /\ Len(resolved[r]) = Len(fwd[r].protocols)
                      /\ Codes(r) \in {<<200>>, <<500>>, <<503>>}

\* GetKDCs returned an error for udp, forward() went on to tcp and the
\* request was answered 200 from a KDC reached over tcp
C36_UdpLookupErrorTcpAnswers ==
    \E r \in Reqs :
        /\ Len(resolved[r]) = 2
        /\ resolved[r][1].proto = protoUdp /\ resolved[r][1].err
        /\ resolved[r][2].proto = protoTcp /\ resolved[r][2].c >= 1
        /\ attempts[r] # <<>>
        /\ LastAttempt(r).proto = protoTcp
        /\ AnsweredAt(r, "Respond", 200)

\* GetKDCs found no address for udp, and forward() has dialled a KDC over tcp
C36_NoUdpAddressTcpDialled ==
    \E r \in Reqs :
        /\ Len(resolved[r]) = 2
        /\ resolved[r][1].proto = protoUdp
        /\ ~resolved[r][1].err /\ resolved[r][1].c = 0
        /\ attempts[r] # <<>>
        /\ LastAttempt(r).proto = protoTcp

\* the connection of the attempt of r in progress
Conn(r) == <<LastAttempt(r).proto, LastAttempt(r).kdc>>

\* r makes a new attempt in this step: net.Dial is called
NewDial(r) == Len(attempts'[r]) = Len(attempts[r]) + 1

\* C37: a request has at most one KDC connection open, the one of the attempt
\* in progress, and none outside the write and the read of an attempt;
\* net.Dial is called only when none is open, and a connection is open or
\* written to only from the dial of its own attempt on, nothing having been
\* written to it or read from it before: none is carried over from an earlier
\* attempt or request.
C37_OneConnectionAtATime ==
    /\ [](\A r \in Reqs :
            /\ Cardinality(open[r]) <= 1
            /\ open[r] # {} =>
                   /\ pc[r] \in {"fwd_write", "fwd_read"}
                   /\ attempts[r] # <<>>
                   /\ open[r] = {Conn(r)}
                   /\ LastAttempt(r).out = "open"
            /\ pc[r] \in {"fwd_write", "fwd_read"} => open[r] # {}
            /\ pc[r] = "fwd_write" => wire[r].req = <<>> /\ ~wire[r].read)
    /\ [][\A r \in Reqs :
            /\ NewDial(r) =>
                   /\ open[r] = {}
                   /\ wire'[r].req = <<>> /\ ~wire'[r].read
                   /\ open'[r] \subseteq {Conn(r)'}
            /\ (open'[r] # {} /\ open'[r] # open[r]) => NewDial(r)]_vars

\* a second KDC was dialled after the attempt on the first had failed, and
\* its connection, on which nothing was written yet, is the only one open
C37_SecondDialAfterClose ==
    \E r \in Reqs :
        /\ Len(attempts[r]) = 2
        /\ attempts[r][1].out = "fail"
        /\ wire[r].req = <<>>
        /\ open[r] = {<<attempts[r][2].proto, attempts[r][2].kdc>>}
        /\ attempts[r][1].kdc # attempts[r][2].kdc

\* the sum of the values of the children of a CounterVec
RECURSIVE SumOver(_, _)
SumOver(vec, labels) ==
    IF labels = {} THEN 0
    ELSE LET l == CHOOSE x \in labels : TRUE
         IN  vec[l] + SumOver(vec, labels \ {l})

Total(vec) == SumOver(vec, DOMAIN vec)

\* the protocol labels of the Kerberos counters
ProtoLabels == {protoUdp, protoTcp}

\* C38: a request Handler has answered has added one to
\* kdc_proxy_http_requests_total and one to kdc_proxy_http_responses_total,
\* under the label of the status it was answered with and under no other, so
\* that after any number of answered requests the first counter is the sum
\* of the second over its labels; a request answered 200 OK is no exception.
C38_RequestsEqualResponses ==
    \A r \in Reqs :
        pc[r] = "done" =>
            /\ metrics[r].httpReqs = 1
            /\ Total(metrics[r].httpResp) = metrics[r].httpReqs
            /\ \A i \in DOMAIN written[r] :
                 Value(metrics[r].httpResp, StatusText(written[r][i].code)) = 1

\* what holds of the code: every request is counted once on entry, and every
\* request answered with an error status is counted once under that status
C38_ErrorsCounted ==
    \A r \in Reqs :
        /\ pc[r] # "idle" => metrics[r].httpReqs = 1
        /\ (pc[r] = "done" /\ Codes(r) # <<200>>) =>
               /\ Total(metrics[r].httpResp) = 1
               /\ Value(metrics[r].httpResp, StatusText(Codes(r)[1])) = 1
        /\ (pc[r] = "done" /\ Codes(r) = <<200>>) =>
               /\ Total(metrics[r].httpResp) = 0
               /\ DOMAIN metrics[r].httpResp = {"OK"}

\* a request was answered 200 and counted under no status
C38_OKNotCounted ==
    \E r \in Reqs :
        /\ AnsweredAt(r, "Respond", 200)
        /\ metrics[r].httpReqs = 1
        /\ Value(metrics[r].httpResp, "OK") = 0

\* C39: each KDC attempt of a request has added one to
\* kdc_proxy_kerberos_requests_total under the label of its protocol, udp or
\* tcp, and under each of these labels kdc_proxy_kerberos_responses_total is
\* at most kdc_proxy_kerberos_requests_total.
C39_KerberosCountersByProtocol ==
    \A r \in Reqs :
        \A p \in ProtoLabels :
            /\ Value(metrics[r].kerbReqs, p) = Len(AttemptsOver(r, p))
            /\ Value(metrics[r].kerbResp, p) <= Value(metrics[r].kerbReqs, p)

\* the second half of C39 alone: under each protocol label the responses
\* counted are at most the requests counted
C39_ResponsesAtMostRequests ==
    \A r \in Reqs :
        \A p \in ProtoLabels :
            Value(metrics[r].kerbResp, p) <= Value(metrics[r].kerbReqs, p)

\* what holds of the code: every attempt is counted under the one label
\* "proto", and a response is counted under tcp for each TCP attempt that
\* read a complete reply, so that the totals are in order
C39_CountedUnderProto ==
    \A r \in Reqs :
        /\ DOMAIN metrics[r].kerbReqs \subseteq {"proto"}
        /\ Value(metrics[r].kerbReqs, "proto") = Len(attempts[r])
        /\ Value(metrics[r].kerbResp, "tcp") =
               Len(SelectSeq(attempts[r],
                             LAMBDA a : a.proto = protoTcp /\ a.out = "ok"))
        /\ Value(metrics[r].kerbResp, "udp") = 0
        /\ Total(metrics[r].kerbResp) <= Total(metrics[r].kerbReqs)

\* a reply was read over tcp and counted, with no request counted under tcp
C39_TcpResponseWithoutRequest ==
    \E r \in Reqs :
        /\ Value(metrics[r].kerbResp, "tcp") = 1
        /\ Value(metrics[r].kerbReqs, "tcp") = 0
        /\ Value(metrics[r].kerbReqs, "proto") >= 1

====
